---- MODULE Spec2Model ----
(***************************************************************************)
(* unicycle4t: DefaultLifecycleManager over a LifecycleDao (Store), a      *)
(* LifecycleFactory, a LifecycleIdGenerator and a mitt event channel.      *)
(*                                                                         *)
(* Every public method of the manager is an async function.  Its body runs *)
(* synchronously up to the next `await`, so each action below is one such  *)
(* synchronous segment: the call itself (up to the first await) and one    *)
(* action per resumption.                                                  *)
(***************************************************************************)
EXTENDS Integers, Sequences, FiniteSets, TLC

\* ---------------------------------------------------------------- bounds
MaxCalls == 5       \* manager calls issued in one behaviour
MaxInjectedCalls == 3   \* the same, on a manager with an injected Store
MaxObjs  == 2       \* objects the factory instantiates in one behaviour
MaxConcCalls == 3   \* calls issued, when the caller does not await them
MaxChannelCalls == 3    \* calls issued, when listeners come and go
MaxRegistrations == 2   \* handlers registered on the channel at one time
MaxSeededCalls == 3     \* calls issued, when create is passed attributes
MaxCustomCalls == 4     \* calls issued, when a subclass adds states of its own
MaxClockCalls == 3      \* calls issued, when updatedAt is observed
MaxDaoCalls == 4        \* calls issued on a Store that is driven directly
MaxDaoObjs == 3         \* objects constructed to drive a Store directly
MaxObjectCalls == 4     \* attribute operations on one object
MaxThrowingCalls == 3   \* calls on a manager with a throwing listener
MaxTwoCalls == 3        \* calls on two managers
MaxFifoCalls == 4       \* calls in flight together, continuations in job order
MaxRefCalls == 4        \* calls, when changeState is passed objects
MaxPoolOps == 3         \* ConnectionPool operations issued
MaxConns == 3           \* connections a ConnectionPool creates after initialize
MaxCacheOps == 4        \* CacheManager calls
MaxTime == 2            \* clock readings (Date.now) of the CacheManager

\* ---------------------------------------------------------------- values
NullRef  == 0       \* `null` where an object reference is expected
NoSuchId == 0       \* an id a caller supplies that no generator returned
NoId     == -1      \* `undefined` id of an object before setId

ObjRefs == 1..MaxObjs
Ids     == 0..MaxObjs

\* LifecycleState values: a required name, optionally extra payload.
LifecycleCreatedState == [name |-> "created", errorMessage |-> ""]
LifecycleStartedState == [name |-> "started", errorMessage |-> ""]
LifecycleStoppedState == [name |-> "stopped", errorMessage |-> ""]
PausedState           == [name |-> "paused",  errorMessage |-> ""]
ErrorState(message)   == [name |-> "error",   errorMessage |-> message]
NoState               == [name |-> "",        errorMessage |-> ""]

NoError == [name |-> "", message |-> <<>>]

\* An optional Record<string, unknown> argument: undefined, or its entries
\* as a set of <<key, value>>.
Undefined      == [given |-> FALSE, entries |-> {}]
Given(entries) == [given |-> TRUE, entries |-> entries]

\* An error message is the sequence of its parts: literal text, or an
\* interpolated id.
Text(t)   == [text |-> t, id |-> NoId]
IdPart(i) == [text |-> "", id |-> i]

\* a not-found error that does not name the id
LifecycleErrorNoId(id) ==
    [name |-> "LifecycleError", message |-> <<Text("Object not found")>>]

\* new LifecycleError(`Lifecycle object not found: ${id}`)
LifecycleError(id) ==
    [name |-> "LifecycleError",
     message |-> <<Text("Lifecycle object not found: "), IdPart(id)>>]

\* the error an injected collaborator raises, told apart by its source
Failure(source) == [name |-> "Error", message |-> <<Text(source)>>]

MessageContains(err, id) ==
    \E i \in 1..Len(err.message) : err.message[i] = IdPart(id)

VARIABLES
    daoKind,    \* which LifecycleDao the manager was constructed with
    scenario,   \* how the application drives the manager
    active,     \* which manager the application addresses: 1 or 2
    parked,     \* the Store's map and the channel of the manager not addressed
    pool,       \* the ConnectionPool of the example, where one is built
    cache,      \* the CacheManager of the example, where one is built
    listeners,  \* the channel's handler lists: listeners[type] = <<handler, ...>>
    heap,       \* the instances: heap[o] = [id, state, attributes, updatedAt]
    storage,    \* the Store's map: storage[id] = object reference or NullRef
    pending,    \* Store updates issued whose write has not completed yet
    nextId,     \* the id generator's position
    calls,      \* the manager calls issued so far, with their position
    trace       \* what a spy on the object, the Store and the channel records

vars == <<daoKind, scenario, active, parked, pool, cache, listeners, heap, storage,
          pending, nextId, calls, trace>>

\* what the constructor fixes
setup == <<daoKind, scenario, active, parked, pool, cache>>

\* no example object has been built
Unbuilt == <<>>

\* ------------------------------------------------------------ collaborators
\* setState keeping the name of the state it is passed and nothing else
SetStateNameOnly(object, state) ==
    [object EXCEPT !.state = [name |-> state.name, errorMessage |-> ""]]

\* object.setState(state): the object refers to the state value it was passed
SetState(object, state) == [object EXCEPT !.state = state]

\* a constructor that leaves the state unset
NewLifecycleObjectNoState ==
    [id |-> NoId, state |-> NoState, attributes |-> {}, updatedAt |-> 0]

\* LifecycleObject constructor: state defaults to created, id unset.
\* updatedAt counts the times it was set anew since construction, when it
\* is createdAt.
NewLifecycleObject ==
    [id |-> NoId, state |-> LifecycleCreatedState, attributes |-> {}, updatedAt |-> 0]

\* setAttributes(attributes): _attributes.set(key, value) for every entry
SetAttributes(object, entries) ==
    [object EXCEPT !.attributes =
                       {kv \in @ : \A e \in entries : e[1] # kv[1]} \cup entries,
                   !.updatedAt = @ + 1]

\* ----- the attribute map of a LifecycleObject: a set of <<key, value>>
UndefinedValue == "undefined"

\* _attributes.has(key)
HasAttribute(object, key) == \E kv \in object.attributes : kv[1] = key

\* _attributes.get(key)
GetAttribute(object, key) ==
    IF HasAttribute(object, key)
    THEN (CHOOSE kv \in object.attributes : kv[1] = key)[2]
    ELSE UndefinedValue

\* setAttribute adding an entry without replacing the one of the same key
SetAttributeAdd(object, key, value) ==
    [object EXCEPT !.attributes = @ \cup {<<key, value>>}, !.updatedAt = @ + 1]

\* setAttribute(key, value): _attributes.set(key, value); updatedAt = new Date()
SetAttribute(object, key, value) ==
    [object EXCEPT !.attributes = {kv \in @ : kv[1] # key} \cup {<<key, value>>},
                   !.updatedAt = @ + 1]

\* deleteAttribute(key): _attributes.delete(key); updatedAt anew if deleted
DeleteAttribute(object, key) ==
    IF HasAttribute(object, key)
    THEN [object EXCEPT !.attributes = {kv \in @ : kv[1] # key},
                        !.updatedAt = @ + 1]
    ELSE object

\* new Error(`Required attribute '${key}' not found`)
RequiredAttributeError(key) ==
    [name |-> "Error",
     message |-> <<Text("Required attribute '"), Text(key), Text("' not found")>>]

\* requireAttribute returning undefined for a missing key
RequireAttributeLenient(object, key) ==
    [value |-> GetAttribute(object, key), err |-> NoError]

\* requireAttribute(key): throws when the key is missing, else the value
RequireAttribute(object, key) ==
    IF ~HasAttribute(object, key)
    THEN [value |-> UndefinedValue, err |-> RequiredAttributeError(key)]
    ELSE [value |-> GetAttribute(object, key), err |-> NoError]

\* DefaultLifecycleFactory.create(initialAttributes?)
FactoryCreate(initialAttributes) ==
    IF initialAttributes.given
    THEN SetAttributes(NewLifecycleObject, initialAttributes.entries)
    ELSE NewLifecycleObject

\* a generator that returns the same identifier on every call
GenerateSame(n) == 1

\* UuidLifecycleIdGenerator.generate: a fresh identifier on every call.
Generate(n) == n

\* a Store whose create stores nothing
DaoCreateNoop(st, o, id) == st

\* a Store whose delete removes nothing
DaoDeleteNoop(st, id) == st

\* a Store whose create keeps the entry it already has
DaoCreateIfAbsent(st, o, id) == IF st[id] = NullRef THEN [st EXCEPT ![id] = o] ELSE st

\* a Store whose update writes only the entries it already has
DaoUpdateIfStored(st, o, id) == IF st[id] = NullRef THEN st ELSE [st EXCEPT ![id] = o]

\* MemoryLifecycleDao: a Map from id to the object reference.
DaoCreate(st, o, id) == [st EXCEPT ![id] = o]
DaoGet(st, id)       == st[id]
DaoUpdate(st, o, id) == [st EXCEPT ![id] = o]
DaoDelete(st, id)    == [st EXCEPT ![id] = NullRef]

\* What a caller (or a listener) obtains from get(id): the state of the
\* object the Store resolves, NoState when the Store resolves nothing.
StoredState(st, hp, id) ==
    IF DaoGet(st, id) = NullRef THEN NoState ELSE hp[DaoGet(st, id)].state

\* ------------------------------------------------------- the event channel
\* mitt(): a map from event type to the array of its handlers, '*' included.
EventTypes == {"object:created", "object:stateChanged", "object:deleted"}
Wildcard   == "*"
NoListeners == [t \in EventTypes \cup {Wildcard} |-> <<>>]

\* handlers.indexOf(handler): the first position, 0 when there is none
IndexOf(hs, h) ==
    IF \E i \in 1..Len(hs) : hs[i] = h
    THEN CHOOSE i \in 1..Len(hs) : hs[i] = h /\ \A j \in 1..(i - 1) : hs[j] # h
    ELSE 0

RemoveAt(hs, i) == SubSeq(hs, 1, i - 1) \o SubSeq(hs, i + 1, Len(hs))

\* off(type) without a handler: all.set(type, [])
MittOffAll(all, type, h) == [all EXCEPT ![type] = <<>>]

\* emit without its second half: the handlers of '*' are not called
MittEmitNamedOnly(all, type) == all[type]

\* on(type, handler): handlers.push(handler)
MittOn(all, type, h) == [all EXCEPT ![type] = Append(@, h)]

\* off(type, handler): handlers.splice(handlers.indexOf(handler) >>> 0, 1)
MittOff(all, type, h) ==
    IF IndexOf(all[type], h) = 0 THEN all
    ELSE [all EXCEPT ![type] = RemoveAt(@, IndexOf(@, h))]

\* emit(type, evt): the handlers of the type, then those of '*', each in
\* registration order; the result is the handlers invoked, in order.
MittEmit(all, type) == all[type] \o all[Wildcard]

\* new DefaultLifecycleManager(): a channel and a MemoryLifecycleDao of its own
NewManager == [storage |-> [i \in Ids |-> NullRef], listeners |-> NoListeners]

\* a listener function that throws whenever it is invoked
Thrower == "thrower"

\* emit runs handlers.slice().map(...) with no try/catch: a handler that
\* throws ends emit, and the handlers after it are not invoked
MittRun(all, type) ==
    LET hs == MittEmit(all, type)
        at == {i \in 1..Len(hs) : hs[i] = Thrower}
    IN IF at = {} THEN hs
       ELSE SubSeq(hs, 1, CHOOSE i \in at : \A j \in at : i <= j)

\* emit(type, evt) throws what a handler has thrown
MittThrows(all, type) == \E i \in 1..Len(MittEmit(all, type)) : MittEmit(all, type)[i] = Thrower

\* --------------------------------------------------------------- recording
Entry(kind, type, c, id, o, old, new, seenObj, seenState) ==
    [kind |-> kind, type |-> type, call |-> c, id |-> id, obj |-> o,
     oldState |-> old, newState |-> new, seenObj |-> seenObj, seenState |-> seenState,
     onType |-> <<>>, onAll |-> <<>>, invoked |-> <<>>]

\* events.emit(type, payload): listeners run synchronously inside emit; the
\* recording listener looks the id up in the Store while it handles the event.
\* The entry keeps the handler arrays emit found and the handlers it invoked.
Emit(type, c, id, o, old, new, st, hp) ==
    [Entry("event", type, c, id, o, old, new, DaoGet(st, id), StoredState(st, hp, id))
        EXCEPT !.onType = listeners[type], !.onAll = listeners[Wildcard],
               !.invoked = MittRun(listeners, type)]

DaoDone(type, c, id, o) == Entry("dao", type, c, id, o, NoState, NoState, NullRef, NoState)

\* a collaborator's call threw, or the promise it returned has rejected
Fault(source, c, id, o) == Entry("fault", source, c, id, o, NoState, NoState, NullRef, NoState)

Assigned(c, id, o, old, new) == Entry("setState", "", c, id, o, old, new, NullRef, NoState)

\* ------------------------------------------------------------------- calls
\* The job queue of the event loop: a call that awaits a settled promise is
\* resumed after the jobs queued before.  `turn` is the call's place in the
\* queue, `hops` the jobs that run before its continuation does.  Kept only
\* where the order of the jobs is what is examined.
Turn ==
    IF scenario = "fifo"
    THEN LET turns == {0} \cup {calls[c].turn : c \in 1..Len(calls)}
         IN 1 + CHOOSE t \in turns : \A u \in turns : u <= t
    ELSE 0

\* `await this.getObject(id)`: getObject itself awaits dao.get, one job more
GetObjectHops == IF scenario = "fifo" THEN 1 ELSE 0

Call(op, id, pc, target) ==
    [op |-> op, id |-> id, pc |-> pc, obj |-> NullRef, oldState |-> NoState,
     target |-> target, result |-> NullRef, err |-> NoError, arg |-> Undefined,
     manager |-> active, turn |-> Turn, hops |-> 0]

\* the public methods that go through changeState
TransitionOps == {"start", "stop", "pause", "error", "changeState"}

Finished(c) == calls[c].pc \in {"done", "failed"}

\* The caller awaits every call before issuing the next one.
Idle == \A c \in 1..Len(calls) : Finished(c)

CallLimit ==
    IF scenario = "concurrent" THEN MaxConcCalls
    ELSE IF scenario = "channel" THEN MaxChannelCalls
    ELSE IF scenario = "seeded" THEN MaxSeededCalls
    ELSE IF scenario = "custom" THEN MaxCustomCalls
    ELSE IF scenario = "clock" THEN MaxClockCalls
    ELSE IF scenario = "dao" THEN MaxDaoCalls
    ELSE IF scenario = "object" THEN MaxObjectCalls
    ELSE IF scenario = "throwing" THEN MaxThrowingCalls
    ELSE IF scenario = "two" THEN MaxTwoCalls
    ELSE IF scenario = "fifo" THEN MaxFifoCalls
    ELSE IF scenario = "byref" THEN MaxRefCalls
    ELSE IF daoKind = "memory" THEN MaxCalls ELSE MaxInjectedCalls

CanCall == Len(calls) < CallLimit /\ (Idle \/ scenario \in {"concurrent", "fifo"})

\* Ids a caller can pass: those a create has assigned, or one of its own.
KnownIds == {NoSuchId} \cup {i \in Ids : i >= 1 /\ i < nextId}

Init ==
    /\ daoKind = "memory"
    /\ scenario = "awaited"
    /\ active = 1
    /\ pool = Unbuilt
    /\ cache = Unbuilt
    /\ parked = NewManager
    /\ listeners = NoListeners
    /\ heap = <<>>
    /\ storage = [i \in Ids |-> NullRef]
    /\ pending = {}
    /\ nextId = 1
    /\ calls = <<>>
    /\ trace = <<>>

\* ------------------------------------------------------------ createObject
\* What a caller passes to create: nothing, or initial attributes as
\* LifecycleManager.create(initialAttributes?) allows.
CallerAttributes ==
    IF scenario = "seeded" THEN {Undefined, Given({<<"name", "a">>})}
    ELSE {Undefined}

\* createObject up to `await this.factory.create()`: the method declares no
\* parameter and calls the factory with none, whatever the caller passed.
CreateObject ==
    /\ CanCall
    /\ Len(heap) < MaxObjs
    /\ \E a \in CallerAttributes :
          calls' = Append(calls, [Call("create", NoId, "factory", NoState)
                                    EXCEPT !.obj = Len(heap) + 1, !.arg = a])
    /\ heap' = Append(heap, FactoryCreate(Undefined))
    /\ UNCHANGED <<setup, listeners, storage, pending, nextId, trace>>

\* object.setId(generate(object)); await this.dao.create(object)
CreatePersist(c) ==
    /\ calls[c].op = "create" /\ calls[c].pc = "factory"
    /\ LET o  == calls[c].obj
           id == Generate(nextId)
       IN /\ heap' = [heap EXCEPT ![o].id = id]
          /\ storage' = DaoCreate(storage, o, id)
          /\ nextId' = nextId + 1
          /\ calls' = [calls EXCEPT ![c].pc = "persisted", ![c].id = id,
                                    ![c].turn = Turn]
          /\ trace' = Append(trace, DaoDone("create", c, id, o))
    /\ UNCHANGED <<setup, listeners, pending>>

\* the call after its events.emit(type, ...): the async method has no
\* try/catch, so what emit throws rejects the promise the call returned
AfterEmit(call, type) ==
    IF MittThrows(listeners, type)
    THEN [call EXCEPT !.pc = "failed", !.err = Failure("listener")]
    ELSE [call EXCEPT !.pc = "done"]

\* createObject emitting object:created twice
CreateEmitTwice(c) ==
    /\ calls[c].op = "create" /\ calls[c].pc = "persisted"
    /\ LET o == calls[c].obj
           e == Emit("object:created", c, heap[o].id, o, NoState, NoState, storage, heap)
       IN /\ trace' = trace \o <<e, e>>
          /\ calls' = [calls EXCEPT ![c].pc = "done", ![c].result = o]
    /\ UNCHANGED <<setup, listeners, heap, storage, pending, nextId>>

\* events.emit('object:created', {object, timestamp}); return object
CreateEmit(c) ==
    /\ calls[c].op = "create" /\ calls[c].pc = "persisted"
    /\ LET o == calls[c].obj
       IN /\ trace' = Append(trace, Emit("object:created", c, heap[o].id, o,
                                         NoState, NoState, storage, heap))
          /\ calls' = [calls EXCEPT ![c] =
                          IF MittThrows(listeners, "object:created")
                          THEN AfterEmit(@, "object:created")
                          ELSE [AfterEmit(@, "object:created") EXCEPT !.result = o]]
    /\ UNCHANGED <<setup, listeners, heap, storage, pending, nextId>>

\* --------------------------------------------------------------- getObject
\* getObject rejecting an id the Store does not hold, as changeState does
GetObjectStrict(id) ==
    /\ CanCall
    /\ id \in KnownIds
    /\ calls' = Append(calls,
          IF DaoGet(storage, id) = NullRef
          THEN [Call("get", id, "failed", NoState) EXCEPT !.err = LifecycleError(id)]
          ELSE [Call("get", id, "got", NoState) EXCEPT !.result = DaoGet(storage, id)])
    /\ UNCHANGED <<setup, listeners, heap, storage, pending, nextId, trace>>

\* getObject up to `await this.dao.get(id)`: the Store is read at the call.
GetObject(id) ==
    /\ CanCall
    /\ id \in KnownIds
    /\ calls' = Append(calls, [Call("get", id, "got", NoState)
                                 EXCEPT !.result = DaoGet(storage, id)])
    /\ UNCHANGED <<setup, listeners, heap, storage, pending, nextId, trace>>

GetReturn(c) ==
    /\ calls[c].op = "get" /\ calls[c].pc = "got"
    /\ calls' = [calls EXCEPT ![c].pc = "done"]
    /\ UNCHANGED <<setup, listeners, heap, storage, pending, nextId, trace>>

\* ------------------------------------------------------------- changeState
\* changeState(id, state) up to `await this.getObject(idOrObject)`.
ChangeState(op, id, state) ==
    /\ CanCall
    /\ id \in KnownIds
    /\ calls' = Append(calls, [Call(op, id, "resolved", state)
                                 EXCEPT !.obj = DaoGet(storage, id),
                                        !.hops = GetObjectHops])
    /\ UNCHANGED <<setup, listeners, heap, storage, pending, nextId, trace>>

\* startObject passing the wrong target state
StartObjectStopped(id) == ChangeState("start", id, LifecycleStoppedState)

StartObject(id) == ChangeState("start", id, LifecycleStartedState)
\* stopObject passing the wrong target state
StopObjectStarted(id) == ChangeState("stop", id, LifecycleStartedState)

StopObject(id)  == ChangeState("stop", id, LifecycleStoppedState)
\* a subclass driving changeState with a state of its own
PauseObject(id) == ChangeState("pause", id, PausedState)

\* onChange(object): this.dao.update(object), not awaited.  The in-memory
\* Store writes inside the call; an injected Store may write later.
OnChange(c, o, id) ==
    IF daoKind = "memory"
    THEN /\ storage' = DaoUpdate(storage, o, id)
         /\ pending' = pending
    ELSE /\ storage' = storage
         /\ pending' = pending \cup {[call |-> c, obj |-> o, id |-> id]}

\* updatedAt after setState.  The LifecycleObject with a setState method is
\* pinned by its tests to set updatedAt anew; the LifecycleObject whose state
\* is a plain field leaves it alone.  Where updatedAt is observed both
\* outcomes are kept; elsewhere it is left out of the picture.
UpdatedAtAfterSetState(object) ==
    IF scenario = "clock" THEN {object.updatedAt, object.updatedAt + 1}
    ELSE {object.updatedAt}

\* a transition guarded on the source state: a stopped object is rejected
NotFoundOrStopped(o) == o = NullRef \/ heap[o].state = LifecycleStoppedState

\* if (!object) throw new LifecycleError(...)
NotFound(o) == o = NullRef

\* the not-found check, then oldState = getState(); setState(state);
\* await this.onChange(object)
ChangeStateApply(c) ==
    /\ calls[c].op \in TransitionOps /\ calls[c].pc = "resolved"
    /\ LET o == calls[c].obj
       IN IF NotFound(o)
          THEN /\ calls' = [calls EXCEPT ![c].pc = "failed",
                                         ![c].err = LifecycleError(calls[c].id)]
               /\ UNCHANGED <<heap, storage, pending, trace>>
          ELSE /\ \E u \in UpdatedAtAfterSetState(heap[o]) :
                    heap' = [heap EXCEPT ![o] = [SetState(@, calls[c].target)
                                                    EXCEPT !.updatedAt = u]]
               /\ OnChange(c, o, heap[o].id)
               /\ calls' = [calls EXCEPT ![c].pc = "updated",
                                         ![c].oldState = heap[o].state,
                                         ![c].turn = Turn]
               /\ trace' = IF daoKind = "memory"
                           THEN trace \o <<Assigned(c, heap[o].id, o, heap[o].state, calls[c].target),
                                           DaoDone("update", c, heap[o].id, o)>>
                           ELSE Append(trace, Assigned(c, heap[o].id, o, heap[o].state,
                                                       calls[c].target))
    /\ UNCHANGED <<setup, listeners, nextId>>

\* changeState notifying only when the object still is in the state it assigned
ChangeStateEmitIfCurrent(c) ==
    /\ calls[c].op \in TransitionOps /\ calls[c].pc = "updated"
    /\ LET o == calls[c].obj
       IN trace' = IF heap[o].state = calls[c].target
                   THEN Append(trace, Emit("object:stateChanged", c, heap[o].id, o,
                                           calls[c].oldState, calls[c].target, storage, heap))
                   ELSE trace
    /\ calls' = [calls EXCEPT ![c].pc = "done"]
    /\ UNCHANGED <<setup, listeners, heap, storage, pending, nextId>>

\* changeState emitting only when the state has changed
ChangeStateEmitIfChanged(c) ==
    /\ calls[c].op \in TransitionOps /\ calls[c].pc = "updated"
    /\ LET o == calls[c].obj
       IN trace' = IF calls[c].oldState # calls[c].target
                   THEN Append(trace, Emit("object:stateChanged", c, heap[o].id, o,
                                           calls[c].oldState, calls[c].target, storage, heap))
                   ELSE trace
    /\ calls' = [calls EXCEPT ![c].pc = "done"]
    /\ UNCHANGED <<setup, listeners, heap, storage, pending, nextId>>

\* changeState reading oldState from the object when it emits
ChangeStateEmitOldRead(c) ==
    /\ calls[c].op \in TransitionOps /\ calls[c].pc = "updated"
    /\ LET o == calls[c].obj
       IN trace' = Append(trace, Emit("object:stateChanged", c, heap[o].id, o,
                                      heap[o].state, calls[c].target, storage, heap))
    /\ calls' = [calls EXCEPT ![c] = AfterEmit(@, "object:stateChanged")]
    /\ UNCHANGED <<setup, listeners, heap, storage, pending, nextId>>

\* events.emit('object:stateChanged', {object, oldState, newState, timestamp})
ChangeStateEmit(c) ==
    /\ calls[c].op \in TransitionOps /\ calls[c].pc = "updated"
    /\ LET o == calls[c].obj
       IN trace' = Append(trace, Emit("object:stateChanged", c, heap[o].id, o,
                                      calls[c].oldState, calls[c].target, storage, heap))
    /\ calls' = [calls EXCEPT ![c] = AfterEmit(@, "object:stateChanged")]
    /\ UNCHANGED <<setup, listeners, heap, storage, pending, nextId>>

\* ------------------------------------------------------------ deleteObject
\* deleteObject rejecting an id the Store does not hold, as changeState does
DeleteObjectStrict(id) ==
    /\ CanCall
    /\ id \in KnownIds
    /\ IF DaoGet(storage, id) = NullRef
       THEN /\ calls' = Append(calls, [Call("delete", id, "failed", NoState)
                                         EXCEPT !.err = LifecycleError(id)])
            /\ storage' = storage
       ELSE /\ calls' = Append(calls, Call("delete", id, "removed", NoState))
            /\ storage' = DaoDelete(storage, id)
    /\ trace' = Append(trace, DaoDone("delete", Len(calls) + 1, id, NullRef))
    /\ UNCHANGED <<setup, listeners, heap, pending, nextId>>

\* deleteObject whose Store call drops every entry
DeleteObjectClear(id) ==
    /\ CanCall
    /\ id \in KnownIds
    /\ storage' = [i \in Ids |-> NullRef]
    /\ calls' = Append(calls, Call("delete", id, "removed", NoState))
    /\ trace' = Append(trace, DaoDone("delete", Len(calls) + 1, id, NullRef))
    /\ UNCHANGED <<setup, listeners, heap, pending, nextId>>

\* deleteObject stopping the instance it removes
DeleteObjectStop(id) ==
    /\ CanCall
    /\ id \in KnownIds
    /\ heap' = [o \in DOMAIN heap |->
                  IF DaoGet(storage, id) = o THEN SetState(heap[o], LifecycleStoppedState)
                  ELSE heap[o]]
    /\ storage' = DaoDelete(storage, id)
    /\ calls' = Append(calls, Call("delete", id, "removed", NoState))
    /\ trace' = Append(trace, DaoDone("delete", Len(calls) + 1, id, NullRef))
    /\ UNCHANGED <<setup, listeners, pending, nextId>>

\* deleteObject up to `await this.dao.delete(id)`.
DeleteObject(id) ==
    /\ CanCall
    /\ id \in KnownIds
    /\ storage' = DaoDelete(storage, id)
    /\ calls' = Append(calls, Call("delete", id, "removed", NoState))
    /\ trace' = Append(trace, DaoDone("delete", Len(calls) + 1, id, NullRef))
    /\ UNCHANGED <<setup, listeners, heap, pending, nextId>>

\* events.emit('object:deleted', {objectId: id, timestamp})
DeleteEmit(c) ==
    /\ calls[c].op = "delete" /\ calls[c].pc = "removed"
    /\ trace' = Append(trace, Emit("object:deleted", c, calls[c].id, NullRef,
                                   NoState, NoState, storage, heap))
    /\ calls' = [calls EXCEPT ![c] = AfterEmit(@, "object:deleted")]
    /\ UNCHANGED <<setup, listeners, heap, storage, pending, nextId>>

\* ------------------------------------------------------------------- specs
Next ==
    \/ CreateObject
    \/ \E c \in 1..Len(calls) : CreatePersist(c)
    \/ \E c \in 1..Len(calls) : CreateEmit(c)
    \/ \E id \in Ids : GetObject(id)
    \/ \E c \in 1..Len(calls) : GetReturn(c)
    \/ \E id \in Ids : StartObject(id)
    \/ \E id \in Ids : StopObject(id)
    \/ \E id \in Ids : PauseObject(id)
    \/ \E c \in 1..Len(calls) : ChangeStateApply(c)
    \/ \E c \in 1..Len(calls) : ChangeStateEmit(c)
    \/ \E id \in Ids : DeleteObject(id)
    \/ \E c \in 1..Len(calls) : DeleteEmit(c)

Spec == Init /\ [][Next]_vars

\* ------------------------------------------- an injected asynchronous Store
\* The manager is constructed with a LifecycleDao of the caller's own whose
\* update performs its write on a later turn (I/O) and resolves after it.
InitInjected ==
    /\ daoKind = "deferred"
    /\ scenario = "awaited"
    /\ active = 1
    /\ pool = Unbuilt
    /\ cache = Unbuilt
    /\ parked = NewManager
    /\ listeners = NoListeners
    /\ heap = <<>>
    /\ storage = [i \in Ids |-> NullRef]
    /\ pending = {}
    /\ nextId = 1
    /\ calls = <<>>
    /\ trace = <<>>

\* the injected Store's update writes and its promise resolves
DaoUpdateLand ==
    \E p \in pending :
        /\ storage' = DaoUpdate(storage, p.obj, p.id)
        /\ pending' = pending \ {p}
        /\ trace' = Append(trace, DaoDone("update", p.call, p.id, p.obj))
        /\ UNCHANGED <<setup, listeners, heap, nextId, calls>>

\* the injected Store's update fails: its promise rejects, nothing is written
DaoUpdateRejects ==
    \E p \in pending :
        /\ pending' = pending \ {p}
        /\ trace' = Append(trace, Fault("dao.update", p.call, p.id, p.obj))
        /\ UNCHANGED <<setup, listeners, heap, storage, nextId, calls>>

\* createObject up to `await this.factory.create()`, with an injected
\* factory whose promise rejects
FactoryRejects ==
    /\ CanCall
    /\ calls' = Append(calls, Call("create", NoId, "rejected", NoState))
    /\ trace' = Append(trace, Fault("factory.create", Len(calls) + 1, NoId, NullRef))
    /\ UNCHANGED <<setup, listeners, heap, storage, pending, nextId>>

\* this.idGenerator.generate(object) throws: setId and dao.create are not
\* reached and the async method rejects with what was thrown
GeneratorThrows(c) ==
    /\ calls[c].op = "create" /\ calls[c].pc = "factory"
    /\ calls' = [calls EXCEPT ![c].pc = "failed",
                              ![c].err = Failure("idGenerator.generate")]
    /\ trace' = Append(trace, Fault("idGenerator.generate", c, NoId, calls[c].obj))
    /\ UNCHANGED <<setup, listeners, heap, storage, pending, nextId>>

\* object.setId(generate(object)); await this.dao.create(object), with an
\* injected Store whose create rejects and stores nothing
DaoCreateRejects(c) ==
    /\ calls[c].op = "create" /\ calls[c].pc = "factory"
    /\ LET o  == calls[c].obj
           id == Generate(nextId)
       IN /\ heap' = [heap EXCEPT ![o].id = id]
          /\ nextId' = nextId + 1
          /\ calls' = [calls EXCEPT ![c].pc = "rejected", ![c].id = id]
          /\ trace' = Append(trace, Fault("dao.create", c, id, o))
    /\ UNCHANGED <<setup, listeners, storage, pending>>

\* the rejection the call is awaiting
Rejection(c) ==
    LET k == CHOOSE k \in 1..Len(trace) : trace[k].kind = "fault" /\ trace[k].call = c
    IN Failure(trace[k].type)

\* createObject catching the rejection and resolving
CreateSwallow(c) ==
    /\ calls[c].op = "create" /\ calls[c].pc = "rejected"
    /\ calls' = [calls EXCEPT ![c].pc = "done"]
    /\ UNCHANGED <<setup, listeners, heap, storage, pending, nextId, trace>>

\* `await` on a rejected promise throws inside createObject, which has no
\* try/catch: the method rejects with the same error
CreateRethrow(c) ==
    /\ calls[c].op = "create" /\ calls[c].pc = "rejected"
    /\ calls' = [calls EXCEPT ![c].pc = "failed", ![c].err = Rejection(c)]
    /\ UNCHANGED <<setup, listeners, heap, storage, pending, nextId, trace>>

NextInjected ==
    \/ Next
    \/ DaoUpdateLand
    \/ DaoUpdateRejects
    \/ FactoryRejects
    \/ \E c \in 1..Len(calls) : GeneratorThrows(c)
    \/ \E c \in 1..Len(calls) : DaoCreateRejects(c)
    \/ \E c \in 1..Len(calls) : CreateRethrow(c)

SpecInjected == InitInjected /\ [][NextInjected]_vars

\* ------------------------------------------ a subclass with an error state
\* errorObject(id, errorMessage) of a subclass: a state that carries a message
ErrorMessages == {"Something went wrong"}

ErrorObject(id, message) == ChangeState("error", id, ErrorState(message))

InitCustom ==
    /\ daoKind = "memory"
    /\ scenario = "custom"
    /\ active = 1
    /\ pool = Unbuilt
    /\ cache = Unbuilt
    /\ parked = NewManager
    /\ listeners = NoListeners
    /\ heap = <<>>
    /\ storage = [i \in Ids |-> NullRef]
    /\ pending = {}
    /\ nextId = 1
    /\ calls = <<>>
    /\ trace = <<>>

NextCustom ==
    \/ Next
    \/ \E id \in Ids : \E message \in ErrorMessages : ErrorObject(id, message)

SpecCustom == InitCustom /\ [][NextCustom]_vars

\* ------------------------------------------- the Store, driven directly
\* A MemoryLifecycleDao of its own and objects the caller constructs and
\* gives ids to, two to an id.  The body of each of its async methods runs
\* inside the call, so a call is one step, awaited or not.
TestId(o) == (o + 1) \div 2

InitDao ==
    /\ daoKind = "memory"
    /\ scenario = "dao"
    /\ active = 1
    /\ pool = Unbuilt
    /\ cache = Unbuilt
    /\ parked = NewManager
    /\ listeners = NoListeners
    /\ heap = [o \in 1..MaxDaoObjs |-> [NewLifecycleObject EXCEPT !.id = TestId(o)]]
    /\ storage = [i \in Ids |-> NullRef]
    /\ pending = {}
    /\ nextId = 1
    /\ calls = <<>>
    /\ trace = <<>>

\* await dao.create(object)
StoreCreate(o) ==
    /\ CanCall
    /\ storage' = DaoCreate(storage, o, heap[o].id)
    /\ calls' = Append(calls, [Call("dao.create", heap[o].id, "done", NoState)
                                 EXCEPT !.obj = o])
    /\ trace' = Append(trace, DaoDone("create", Len(calls) + 1, heap[o].id, o))
    /\ UNCHANGED <<setup, listeners, heap, pending, nextId>>

\* await dao.update(object)
StoreUpdate(o) ==
    /\ CanCall
    /\ storage' = DaoUpdate(storage, o, heap[o].id)
    /\ calls' = Append(calls, [Call("dao.update", heap[o].id, "done", NoState)
                                 EXCEPT !.obj = o])
    /\ trace' = Append(trace, DaoDone("update", Len(calls) + 1, heap[o].id, o))
    /\ UNCHANGED <<setup, listeners, heap, pending, nextId>>

\* await dao.get(id)
StoreGet(id) ==
    /\ CanCall
    /\ calls' = Append(calls, [Call("dao.get", id, "done", NoState)
                                 EXCEPT !.result = DaoGet(storage, id)])
    /\ trace' = Append(trace, DaoDone("get", Len(calls) + 1, id, DaoGet(storage, id)))
    /\ UNCHANGED <<setup, listeners, heap, storage, pending, nextId>>

\* await dao.delete(id)
StoreDelete(id) ==
    /\ CanCall
    /\ storage' = DaoDelete(storage, id)
    /\ calls' = Append(calls, Call("dao.delete", id, "done", NoState))
    /\ trace' = Append(trace, DaoDone("delete", Len(calls) + 1, id, NullRef))
    /\ UNCHANGED <<setup, listeners, heap, pending, nextId>>

NextDao ==
    \/ \E o \in 1..Len(heap) : StoreCreate(o)
    \/ \E o \in 1..Len(heap) : StoreUpdate(o)
    \/ \E id \in {heap[o].id : o \in 1..Len(heap)} \cup {NoSuchId} : StoreGet(id)
    \/ \E id \in {heap[o].id : o \in 1..Len(heap)} \cup {NoSuchId} : StoreDelete(id)

SpecDao == InitDao /\ [][NextDao]_vars

\* ------------------------------------------------- a listener that throws
\* The application has registered, before its first call, a listener that
\* throws on one event name and a spy on every event.
InitThrowing ==
    /\ daoKind = "memory"
    /\ scenario = "throwing"
    /\ active = 1
    /\ pool = Unbuilt
    /\ cache = Unbuilt
    /\ parked = NewManager
    /\ \E type \in EventTypes :
          listeners = MittOn(MittOn(NoListeners, type, Thrower), Wildcard, "spy1")
    /\ heap = <<>>
    /\ storage = [i \in Ids |-> NullRef]
    /\ pending = {}
    /\ nextId = 1
    /\ calls = <<>>
    /\ trace = <<>>

\* the calls that emit events
NextThrowing ==
    \/ CreateObject
    \/ \E c \in 1..Len(calls) : CreatePersist(c)
    \/ \E c \in 1..Len(calls) : CreateEmit(c)
    \/ \E id \in Ids : StartObject(id)
    \/ \E id \in Ids : StopObject(id)
    \/ \E c \in 1..Len(calls) : ChangeStateApply(c)
    \/ \E c \in 1..Len(calls) : ChangeStateEmit(c)
    \/ \E id \in Ids : DeleteObject(id)
    \/ \E c \in 1..Len(calls) : DeleteEmit(c)

SpecThrowing == InitThrowing /\ [][NextThrowing]_vars

\* ------------------------------------- changeState passed an object
\* A subclass passes changeState the object the caller holds, not its id.
InitRef ==
    /\ daoKind = "memory"
    /\ scenario = "byref"
    /\ active = 1
    /\ pool = Unbuilt
    /\ cache = Unbuilt
    /\ parked = NewManager
    /\ listeners = NoListeners
    /\ heap = <<>>
    /\ storage = [i \in Ids |-> NullRef]
    /\ pending = {}
    /\ nextId = 1
    /\ calls = <<>>
    /\ trace = <<>>

\* the caller builds an object with the factory and the id generator and
\* does not hand it to the manager's create
ConstructObject ==
    /\ Idle
    /\ Len(heap) < MaxObjs
    /\ heap' = Append(heap, [FactoryCreate(Undefined) EXCEPT !.id = Generate(nextId)])
    /\ nextId' = nextId + 1
    /\ UNCHANGED <<setup, listeners, storage, pending, calls, trace>>

\* changeState(object, state) rejecting an object the Store does not hold
ChangeStateObjectLookup(o, state) ==
    /\ CanCall
    /\ o \in 1..Len(heap) /\ heap[o].id # NoId
    /\ IF DaoGet(storage, heap[o].id) = NullRef
       THEN /\ calls' = Append(calls, [Call("changeState", heap[o].id, "failed", state)
                                         EXCEPT !.err = LifecycleError(heap[o].id)])
            /\ UNCHANGED <<heap, storage, trace>>
       ELSE /\ heap' = [heap EXCEPT ![o] = SetState(@, state)]
            /\ storage' = DaoUpdate(storage, o, heap[o].id)
            /\ calls' = Append(calls, [Call("changeState", heap[o].id, "updated", state)
                                         EXCEPT !.obj = o, !.oldState = heap[o].state])
            /\ trace' = trace \o <<Assigned(Len(calls) + 1, heap[o].id, o, heap[o].state, state),
                                   DaoDone("update", Len(calls) + 1, heap[o].id, o)>>
    /\ UNCHANGED <<setup, listeners, pending, nextId>>

\* changeState(object, state) up to `await this.onChange(object)`: typeof
\* idOrObject === 'object', so there is no getObject and no await before
\* the assignment
ChangeStateObject(o, state) ==
    /\ CanCall
    /\ o \in 1..Len(heap) /\ heap[o].id # NoId
    /\ heap' = [heap EXCEPT ![o] = SetState(@, state)]
    /\ storage' = DaoUpdate(storage, o, heap[o].id)
    /\ calls' = Append(calls, [Call("changeState", heap[o].id, "updated", state)
                                 EXCEPT !.obj = o, !.oldState = heap[o].state])
    /\ trace' = trace \o <<Assigned(Len(calls) + 1, heap[o].id, o, heap[o].state, state),
                            DaoDone("update", Len(calls) + 1, heap[o].id, o)>>
    /\ UNCHANGED <<setup, listeners, pending, nextId>>

NextRef ==
    \/ CreateObject
    \/ \E c \in 1..Len(calls) : CreatePersist(c)
    \/ \E c \in 1..Len(calls) : CreateEmit(c)
    \/ ConstructObject
    \/ \E o \in ObjRefs : \E state \in {LifecycleStartedState, LifecycleStoppedState} :
          ChangeStateObject(o, state)
    \/ \E c \in 1..Len(calls) : ChangeStateEmit(c)
    \/ \E id \in Ids : DeleteObject(id)
    \/ \E c \in 1..Len(calls) : DeleteEmit(c)

SpecRef == InitRef /\ [][NextRef]_vars

\* ------------------------------------------------------------ two managers
\* The application has built two managers with default collaborators and
\* registered a spy for every event on each: spy1 on manager 1, spy2 on 2.
Spy(m) == IF m = 1 THEN "spy1" ELSE "spy2"

InitTwo ==
    /\ daoKind = "memory"
    /\ scenario = "two"
    /\ active = 1
    /\ pool = Unbuilt
    /\ cache = Unbuilt
    /\ parked = [NewManager EXCEPT !.listeners = MittOn(NoListeners, Wildcard, Spy(2))]
    /\ listeners = MittOn(NoListeners, Wildcard, Spy(1))
    /\ heap = <<>>
    /\ storage = [i \in Ids |-> NullRef]
    /\ pending = {}
    /\ nextId = 1
    /\ calls = <<>>
    /\ trace = <<>>

\* both managers using one Store map
AddressSharedStore ==
    /\ Idle
    /\ active' = 3 - active
    /\ listeners' = parked.listeners
    /\ parked' = [storage |-> storage, listeners |-> listeners]
    /\ UNCHANGED <<daoKind, scenario, pool, cache, heap, storage, pending, nextId, calls, trace>>

\* The application turns to its other manager: `storage` and `listeners` are
\* the fields of the manager addressed, `parked` those of the other one.
Address ==
    /\ Idle
    /\ active' = 3 - active
    /\ storage' = parked.storage
    /\ listeners' = parked.listeners
    /\ parked' = [storage |-> storage, listeners |-> listeners]
    /\ UNCHANGED <<daoKind, scenario, pool, cache, heap, pending, nextId, calls, trace>>

NextTwo ==
    \/ CreateObject
    \/ \E c \in 1..Len(calls) : CreatePersist(c)
    \/ \E c \in 1..Len(calls) : CreateEmit(c)
    \/ \E id \in Ids : GetObject(id)
    \/ \E c \in 1..Len(calls) : GetReturn(c)
    \/ \E id \in Ids : StartObject(id)
    \/ \E c \in 1..Len(calls) : ChangeStateApply(c)
    \/ \E c \in 1..Len(calls) : ChangeStateEmit(c)
    \/ \E id \in Ids : DeleteObject(id)
    \/ \E c \in 1..Len(calls) : DeleteEmit(c)
    \/ Address

SpecTwo == InitTwo /\ [][NextTwo]_vars

\* ------------------------------------------ one object, used directly
\* A LifecycleObject the caller constructed; its methods are synchronous.
Keys   == {"key1", "key2"}
Values == {"value1", "value2"}

TheObject == 1

InitObject ==
    /\ daoKind = "memory"
    /\ scenario = "object"
    /\ active = 1
    /\ pool = Unbuilt
    /\ cache = Unbuilt
    /\ parked = NewManager
    /\ listeners = NoListeners
    /\ heap = <<NewLifecycleObject>>
    /\ storage = [i \in Ids |-> NullRef]
    /\ pending = {}
    /\ nextId = 1
    /\ calls = <<>>
    /\ trace = <<>>

\* a method call on the object, as the caller sees it
AttributeCall(op, key) ==
    [op |-> op, pc |-> "done", obj |-> TheObject, key |-> key, value |-> "",
     found |-> FALSE, err |-> NoError, before |-> heap[TheObject]]

ObjectSetAttribute(key, value) ==
    /\ CanCall
    /\ heap' = [heap EXCEPT ![TheObject] = SetAttribute(@, key, value)]
    /\ calls' = Append(calls, [AttributeCall("setAttribute", key) EXCEPT !.value = value])
    /\ UNCHANGED <<setup, listeners, storage, pending, nextId, trace>>

ObjectGetAttribute(key) ==
    /\ CanCall
    /\ calls' = Append(calls, [AttributeCall("getAttribute", key)
                                 EXCEPT !.value = GetAttribute(heap[TheObject], key)])
    /\ UNCHANGED <<setup, listeners, heap, storage, pending, nextId, trace>>

ObjectHasAttribute(key) ==
    /\ CanCall
    /\ calls' = Append(calls, [AttributeCall("hasAttribute", key)
                                 EXCEPT !.found = HasAttribute(heap[TheObject], key)])
    /\ UNCHANGED <<setup, listeners, heap, storage, pending, nextId, trace>>

ObjectDeleteAttribute(key) ==
    /\ CanCall
    /\ heap' = [heap EXCEPT ![TheObject] = DeleteAttribute(@, key)]
    /\ calls' = Append(calls, [AttributeCall("deleteAttribute", key)
                                 EXCEPT !.found = HasAttribute(heap[TheObject], key)])
    /\ UNCHANGED <<setup, listeners, storage, pending, nextId, trace>>

ObjectRequireAttribute(key) ==
    /\ CanCall
    /\ LET r == RequireAttribute(heap[TheObject], key)
       IN calls' = Append(calls, [AttributeCall("requireAttribute", key)
                                    EXCEPT !.value = r.value, !.err = r.err,
                                           !.pc = IF r.err = NoError THEN "done"
                                                  ELSE "failed"])
    /\ UNCHANGED <<setup, listeners, heap, storage, pending, nextId, trace>>

NextObject ==
    \/ \E key \in Keys : \E value \in Values : ObjectSetAttribute(key, value)
    \/ \E key \in Keys : ObjectGetAttribute(key)
    \/ \E key \in Keys : ObjectHasAttribute(key)
    \/ \E key \in Keys : ObjectDeleteAttribute(key)
    \/ \E key \in Keys : ObjectRequireAttribute(key)

SpecObject == InitObject /\ [][NextObject]_vars

\* ------------------------------------------------- updatedAt is observed
InitClock ==
    /\ daoKind = "memory"
    /\ scenario = "clock"
    /\ active = 1
    /\ pool = Unbuilt
    /\ cache = Unbuilt
    /\ parked = NewManager
    /\ listeners = NoListeners
    /\ heap = <<>>
    /\ storage = [i \in Ids |-> NullRef]
    /\ pending = {}
    /\ nextId = 1
    /\ calls = <<>>
    /\ trace = <<>>

SpecClock == InitClock /\ [][Next]_vars

\* ------------------------------------------- create with initial attributes
InitSeeded ==
    /\ daoKind = "memory"
    /\ scenario = "seeded"
    /\ active = 1
    /\ pool = Unbuilt
    /\ cache = Unbuilt
    /\ parked = NewManager
    /\ listeners = NoListeners
    /\ heap = <<>>
    /\ storage = [i \in Ids |-> NullRef]
    /\ pending = {}
    /\ nextId = 1
    /\ calls = <<>>
    /\ trace = <<>>

SpecSeeded == InitSeeded /\ [][Next]_vars

\* ----------------------------------------------------- calls not awaited
\* The application issues calls without awaiting the earlier ones
\* (Promise.all): their segments interleave at the await points.
InitConc ==
    /\ daoKind = "memory"
    /\ scenario = "concurrent"
    /\ active = 1
    /\ pool = Unbuilt
    /\ cache = Unbuilt
    /\ parked = NewManager
    /\ listeners = NoListeners
    /\ heap = <<>>
    /\ storage = [i \in Ids |-> NullRef]
    /\ pending = {}
    /\ nextId = 1
    /\ calls = <<>>
    /\ trace = <<>>

\* the continuation of call c, whose awaited promise has settled
ResumeCall(c) ==
    \/ CreatePersist(c)
    \/ CreateEmit(c)
    \/ GetReturn(c)
    \/ ChangeStateApply(c)
    \/ ChangeStateEmit(c)
    \/ DeleteEmit(c)

Resume == \E c \in 1..Len(calls) : ResumeCall(c)

\* the event loop runs every continuation that is ready
SpecConc == InitConc /\ [][Next]_vars /\ WF_vars(Resume)

\* ------------------------------------------- continuations in job order
\* The calls are not awaited one by one, the Store is the in-memory one, and
\* the event loop runs the continuations in the order their promises settled.
InitFifo ==
    /\ daoKind = "memory"
    /\ scenario = "fifo"
    /\ active = 1
    /\ pool = Unbuilt
    /\ cache = Unbuilt
    /\ parked = NewManager
    /\ listeners = NoListeners
    /\ heap = <<>>
    /\ storage = [i \in Ids |-> NullRef]
    /\ pending = {}
    /\ nextId = 1
    /\ calls = <<>>
    /\ trace = <<>>

\* the job at the head of the queue belongs to call c
IsHead(c) ==
    /\ ~Finished(c)
    /\ \A d \in 1..Len(calls) : ~Finished(d) => calls[c].turn <= calls[d].turn

\* getObject's `return await this.dao.get(id)` has resumed and settled the
\* promise changeState awaits: the continuation of changeState is queued
GetObjectResume(c) ==
    /\ calls[c].op \in TransitionOps /\ calls[c].pc = "resolved"
    /\ calls[c].hops > 0
    /\ calls' = [calls EXCEPT ![c].hops = @ - 1, ![c].turn = Turn]
    /\ UNCHANGED <<setup, listeners, heap, storage, pending, nextId, trace>>

\* the event loop runs the job at the head of its queue
RunJob(c) ==
    /\ IsHead(c)
    /\ IF calls[c].hops > 0 THEN GetObjectResume(c) ELSE ResumeCall(c)

\* the application issues calls at any point between two jobs
NextFifo ==
    \/ CreateObject
    \/ \E id \in Ids : StartObject(id)
    \/ \E id \in Ids : StopObject(id)
    \/ \E id \in Ids : DeleteObject(id)
    \/ \E c \in 1..Len(calls) : RunJob(c)

SpecFifo == InitFifo /\ [][NextFifo]_vars

\* ------------------------------------------------ listeners on the channel
\* The application subscribes and unsubscribes listeners of its own on
\* manager.events between its awaited calls.
Handlers == {"spy1", "spy2"}

\* how many times h stands in the handler array hs
Count(hs, h) == Cardinality({i \in 1..Len(hs) : hs[i] = h})

Registrations(all) ==
    Len(all["object:created"]) + Len(all["object:stateChanged"])
        + Len(all["object:deleted"]) + Len(all[Wildcard])

InitChannel ==
    /\ daoKind = "memory"
    /\ scenario = "channel"
    /\ active = 1
    /\ pool = Unbuilt
    /\ cache = Unbuilt
    /\ parked = NewManager
    /\ listeners = NoListeners
    /\ heap = <<>>
    /\ storage = [i \in Ids |-> NullRef]
    /\ pending = {}
    /\ nextId = 1
    /\ calls = <<>>
    /\ trace = <<>>

\* the event names the application subscribes to
SubscribedTypes == {"object:created", Wildcard}

\* manager.events.on(type, handler), before the application's first call
On(type, h) ==
    /\ calls = <<>>
    /\ Registrations(listeners) < MaxRegistrations
    /\ listeners' = MittOn(listeners, type, h)
    /\ UNCHANGED <<setup, heap, storage, pending, nextId, calls, trace>>

\* manager.events.off(type, handler)
Off(type, h) ==
    /\ Idle
    /\ listeners' = MittOff(listeners, type, h)
    /\ UNCHANGED <<setup, heap, storage, pending, nextId, calls, trace>>

\* the calls that emit events, and the subscriptions
NextChannel ==
    \/ CreateObject
    \/ \E c \in 1..Len(calls) : CreatePersist(c)
    \/ \E c \in 1..Len(calls) : CreateEmit(c)
    \/ \E id \in Ids : StartObject(id)
    \/ \E id \in Ids : StopObject(id)
    \/ \E c \in 1..Len(calls) : ChangeStateApply(c)
    \/ \E c \in 1..Len(calls) : ChangeStateEmit(c)
    \/ \E id \in Ids : DeleteObject(id)
    \/ \E c \in 1..Len(calls) : DeleteEmit(c)
    \/ \E type \in SubscribedTypes : \E h \in Handlers : On(type, h)
    \/ \E type \in SubscribedTypes : \E h \in Handlers : Off(type, h)

SpecChannel == InitChannel /\ [][NextChannel]_vars

\* ================================================ example: ConnectionPool
\* new ConnectionPool(config, {minConnections, maxConnections, ...})
PoolMin == 1
PoolMax == 2

ConnIds == 1..(PoolMin + MaxConns)
NoConn == 0

\* the variables of the lifecycle manager's model, which the example's
\* model holds in its own fields
core == <<daoKind, scenario, active, parked, listeners, heap, storage, pending, nextId,
          calls, trace>>

\* a connection object: in the pool's manager or deleted from it, and the
\* status of its connectionInfo attribute
Connection(stored, status) == [stored |-> stored, status |-> status]

PoolOp(op, pc, conn) ==
    [op |-> op, pc |-> pc, conn |-> conn, result |-> NoConn, ok |-> FALSE,
     found |-> FALSE, todo |-> <<>>]

\* availableConnections.indexOf(id), then splice(index, 1) if it is not -1
Splice(ids, id) == IF IndexOf(ids, id) = 0 THEN ids ELSE RemoveAt(ids, IndexOf(ids, id))

\* The pool after `await pool.initialize()`: minConnections connections
\* created one after the other, each pushed to availableConnections.
InitPool ==
    /\ daoKind = "memory"
    /\ scenario = "pool"
    /\ active = 1
    /\ parked = NewManager
    /\ cache = Unbuilt
    /\ pool = [available |-> [i \in 1..PoolMin |-> i],
               busy |-> {},
               total |-> PoolMin,
               conns |-> [i \in ConnIds |-> Connection(i <= PoolMin, "idle")],
               nextConn |-> PoolMin + 1,
               ops |-> <<>>]
    /\ listeners = NoListeners
    /\ heap = <<>>
    /\ storage = [i \in Ids |-> NullRef]
    /\ pending = {}
    /\ nextId = 1
    /\ calls = <<>>
    /\ trace = <<>>

PoolOps == 1..Len(pool.ops)

\* acquireConnection up to its first await: pop an available connection and
\* await isConnectionValid, or with none available compare totalConnections
\* with maxConnections and await createConnection, or return null
AcquireConnection ==
    /\ Len(pool.ops) < MaxPoolOps
    /\ IF pool.available # <<>>
       THEN pool' = [pool EXCEPT
                !.available = SubSeq(@, 1, Len(@) - 1),
                !.ops = Append(@, PoolOp("acquire", "validate",
                                         pool.available[Len(pool.available)]))]
       ELSE IF pool.total < PoolMax
       THEN pool' = [pool EXCEPT !.ops = Append(@, PoolOp("acquire", "creating", NoConn))]
       ELSE pool' = [pool EXCEPT !.ops = Append(@, PoolOp("acquire", "done", NoConn))]
    /\ UNCHANGED <<core, cache>>

\* isConnectionValid has returned: the object is gone, too old, has too many
\* errors or fails the health check (Math.random), or it is valid.  A valid
\* connection goes on to markConnectionBusy; an invalid one to
\* removeConnection, which takes it out of the pool's collections at once.
AcquireValidate(i) ==
    /\ pool.ops[i].op = "acquire" /\ pool.ops[i].pc = "validate"
    /\ \E healthy \in BOOLEAN :
          IF pool.conns[pool.ops[i].conn].stored /\ healthy
          THEN pool' = [pool EXCEPT !.ops[i].pc = "mark"]
          ELSE pool' = [pool EXCEPT
                   !.available = Splice(@, pool.ops[i].conn),
                   !.busy = @ \ {pool.ops[i].conn},
                   !.ops[i].pc = "removing"]
    /\ UNCHANGED <<core, cache>>

\* removeConnection after its awaits: stopObject and deleteObject have run
\* and totalConnections is decremented, or stopObject has thrown not-found
\* and the catch has swallowed it
Removed(p, id) ==
    IF p.conns[id].stored
    THEN [p EXCEPT !.conns[id].stored = FALSE, !.total = @ - 1]
    ELSE p

\* acquireConnection after `await this.removeConnection(connectionId)`: the
\* comparison of totalConnections with maxConnections
AcquireRemoved(i) ==
    /\ pool.ops[i].op = "acquire" /\ pool.ops[i].pc = "removing"
    /\ LET p == Removed(pool, pool.ops[i].conn)
       IN pool' = [p EXCEPT !.ops[i].pc = IF p.total < PoolMax THEN "creating" ELSE "done",
                            !.ops[i].conn = NoConn]
    /\ UNCHANGED <<core, cache>>

\* createConnection after `await this.manager.startObject(id)`: the id is
\* pushed to availableConnections and totalConnections incremented; the
\* caller (acquireConnection, or the refill loop of reapIdleConnections)
\* resumes later
CreateConnection(i) ==
    /\ pool.ops[i].pc = "creating"
    /\ pool.nextConn \in ConnIds
    /\ pool' = [pool EXCEPT
            !.conns[pool.nextConn] = Connection(TRUE, "idle"),
            !.available = Append(@, pool.nextConn),
            !.total = @ + 1,
            !.nextConn = @ + 1,
            !.ops[i].conn = pool.nextConn,
            !.ops[i].pc = IF pool.ops[i].op = "acquire" THEN "mark" ELSE "refill"]
    /\ UNCHANGED <<core, cache>>

\* markConnectionBusy after `await this.manager.getObject(id)`: status BUSY,
\* busyConnections.set(id, userId); then acquireConnection returns the id
AcquireMark(i) ==
    /\ pool.ops[i].op = "acquire" /\ pool.ops[i].pc = "mark"
    /\ LET id == pool.ops[i].conn
       IN IF pool.conns[id].stored
          THEN pool' = [pool EXCEPT !.conns[id].status = "busy",
                                    !.busy = @ \cup {id},
                                    !.ops[i].pc = "done", !.ops[i].result = id]
          ELSE pool' = [pool EXCEPT !.ops[i].pc = "done", !.ops[i].result = id]
    /\ UNCHANGED <<core, cache>>

\* releaseConnection(id) up to `await this.manager.getObject(id)`
ReleaseConnection(id) ==
    /\ Len(pool.ops) < MaxPoolOps
    /\ id < pool.nextConn
    /\ pool' = [pool EXCEPT !.ops = Append(@, [PoolOp("release", "lookup", id)
                                                 EXCEPT !.found = pool.conns[id].stored])]
    /\ UNCHANGED <<core, cache>>

\* releaseConnection after the await: false for no object or a status other
\* than BUSY, else status IDLE, busyConnections.delete, availableConnections.push
ReleaseApply(i) ==
    /\ pool.ops[i].op = "release" /\ pool.ops[i].pc = "lookup"
    /\ LET id == pool.ops[i].conn
       IN IF pool.ops[i].found /\ pool.conns[id].status = "busy"
          THEN pool' = [pool EXCEPT !.conns[id].status = "idle",
                                    !.busy = @ \ {id},
                                    !.available = Append(@, id),
                                    !.ops[i].pc = "done", !.ops[i].ok = TRUE]
          ELSE pool' = [pool EXCEPT !.ops[i].pc = "done"]
    /\ UNCHANGED <<core, cache>>

\* the entries of ids at the positions in `at`, in order
RECURSIVE Pick(_, _, _)
Pick(ids, at, i) ==
    IF i > Len(ids) THEN <<>>
    ELSE (IF i \in at THEN <<ids[i]>> ELSE <<>>) \o Pick(ids, at, i + 1)

\* reapIdleConnections, its scan of availableConnections: an entry is listed
\* when its object exists, it has been idle for longer than idleTimeout (the
\* clock decides) and totalConnections > minConnections
ReapIdleConnections ==
    /\ Len(pool.ops) < MaxPoolOps
    /\ \E at \in SUBSET (1..Len(pool.available)) :
          /\ at # {} => pool.total > PoolMin
          /\ \A k \in at : pool.conns[pool.available[k]].stored
          /\ pool' = [pool EXCEPT !.ops = Append(@, [PoolOp("reap", "reaping", NoConn)
                                    EXCEPT !.todo = Pick(pool.available, at, 1)])]
    /\ UNCHANGED <<core, cache>>

\* reapIdleConnections: `await this.removeConnection(id)` for the next
\* listed connection
ReapRemove(i) ==
    /\ pool.ops[i].op = "reap" /\ pool.ops[i].pc = "reaping"
    /\ pool.ops[i].todo # <<>>
    /\ LET id == Head(pool.ops[i].todo)
           p == Removed([pool EXCEPT !.available = Splice(@, id), !.busy = @ \ {id}], id)
       IN pool' = [p EXCEPT !.ops[i].todo = Tail(@)]
    /\ UNCHANGED <<core, cache>>

\* reapIdleConnections: while (totalConnections < minConnections) await
\* createConnection(); then return
ReapRefill(i) ==
    /\ pool.ops[i].op = "reap" /\ pool.ops[i].pc \in {"reaping", "refill"}
    /\ pool.ops[i].todo = <<>>
    /\ pool' = [pool EXCEPT !.ops[i].pc = IF pool.total < PoolMin THEN "creating" ELSE "done"]
    /\ UNCHANGED <<core, cache>>

NextPool ==
    \/ AcquireConnection
    \/ \E i \in PoolOps : AcquireValidate(i)
    \/ \E i \in PoolOps : AcquireRemoved(i)
    \/ \E i \in PoolOps : CreateConnection(i)
    \/ \E i \in PoolOps : AcquireMark(i)
    \/ \E id \in ConnIds : ReleaseConnection(id)
    \/ \E i \in PoolOps : ReleaseApply(i)
    \/ ReapIdleConnections
    \/ \E i \in PoolOps : ReapRemove(i)
    \/ \E i \in PoolOps : ReapRefill(i)

SpecPool == InitPool /\ [][NextPool]_vars

\* ================================================== example: CacheManager
\* new CacheManager(maxSize)
CacheMax == 2

CacheKeys == {"k1", "k2", "k3"}
CacheValues == {"v1", "v2"}
Ttls == {1, 2}
NoItem == [key |-> "", value |-> "", ttl |-> 0, createdAt |-> 0]
NoCall == [op |-> "", key |-> "", result |-> "", at |-> 0, full |-> FALSE,
           fresh |-> FALSE, evicted |-> {}]
Unwritten == [value |-> "", ttl |-> 0, at |-> 0, use |-> 0]

\* the keys of keyToIdMap
CachedKeys(c) == {k \in CacheKeys : c.keyToId[k] # NullRef}

\* addToLRU(key): the node goes in after head
AddToLRU(lru, key) == <<key>> \o lru

\* removeFromLRU(key): unlink the node lruMap holds for the key
RemoveFromLRU(lru, key) == Splice(lru, key)

\* moveToLRUHead(key), left out
KeepLRUOrder(lru, key) == lru

\* moveToLRUHead(key)
MoveToLRUHead(lru, key) == AddToLRU(RemoveFromLRU(lru, key), key)

\* delete(key), the awaited whole: without an id in keyToIdMap nothing
\* happens; else the object, if the manager has it, is counted out, stopped
\* and deleted, and the key leaves keyToIdMap and the LRU list
CacheDelete(c, key) ==
    IF c.keyToId[key] = NullRef THEN c
    ELSE LET id == c.keyToId[key]
             d == IF c.objects[id] # NoItem
                  THEN [c EXCEPT !.size = @ - 1, !.objects[id] = NoItem]
                  ELSE c
         IN [d EXCEPT !.keyToId[key] = NullRef, !.lru = RemoveFromLRU(@, key)]

\* evictLRU, left out
EvictNone(c) == c

\* evictLRU: delete the key of tail.prev unless the list is empty
EvictLRU(c) ==
    IF c.lru # <<>> THEN CacheDelete(c, c.lru[Len(c.lru)]) ELSE c

\* isExpired(itemData)
IsExpired(item, now) == now - item.createdAt > item.ttl

\* the CacheManager after construction; cleanupExpiredItems runs once a
\* minute and is beyond the clock readings followed here
InitCache ==
    /\ daoKind = "memory"
    /\ scenario = "cache"
    /\ active = 1
    /\ parked = NewManager
    /\ pool = Unbuilt
    /\ cache = [keyToId |-> [k \in CacheKeys |-> NullRef],
                objects |-> [i \in 1..MaxCacheOps |-> NoItem],
                size |-> 0,
                lru |-> <<>>,
                timers |-> {},
                now |-> 0,
                count |-> 0,
                last |-> NoCall,
                written |-> [k \in CacheKeys |-> Unwritten]]
    /\ listeners = NoListeners
    /\ heap = <<>>
    /\ storage = [i \in Ids |-> NullRef]
    /\ pending = {}
    /\ nextId = 1
    /\ calls = <<>>
    /\ trace = <<>>

\* await cache.set(key, value, ttl): an entry of the key is deleted first; at
\* capacity the least recently used key is evicted; then the item is created
\* and started, mapped, counted, put at the head of the LRU list, and a timer
\* that expires the KEY is set for ttl from now
CacheSet(key, value, ttl) ==
    /\ cache.count < MaxCacheOps
    /\ LET c1 == IF cache.keyToId[key] # NullRef THEN CacheDelete(cache, key) ELSE cache
           c2 == IF c1.size >= CacheMax THEN EvictLRU(c1) ELSE c1
           id == cache.count + 1
       IN cache' = [c2 EXCEPT
               !.objects[id] = [key |-> key, value |-> value, ttl |-> ttl,
                                createdAt |-> cache.now],
               !.keyToId[key] = id,
               !.size = @ + 1,
               !.lru = AddToLRU(@, key),
               !.timers = @ \cup {[key |-> key, due |-> cache.now + ttl]},
               !.count = @ + 1,
               !.last = [op |-> "set", key |-> key, result |-> "", at |-> cache.now,
                         full |-> cache.size >= CacheMax,
                         fresh |-> cache.keyToId[key] = NullRef,
                         evicted |-> (CachedKeys(cache) \ CachedKeys(c2)) \ {key}],
               !.written = [k \in CacheKeys |->
                              IF k = key
                              THEN [value |-> value, ttl |-> ttl, at |-> cache.now,
                                    use |-> cache.count + 1]
                              ELSE IF k \in CachedKeys(c2) \/ k \notin CachedKeys(cache)
                              THEN cache.written[k]
                              ELSE Unwritten]]
    /\ UNCHANGED <<core, pool>>

\* await cache.get(key): null for an unknown key, for a key whose object is
\* gone and for an expired item (which is deleted); else the item goes to
\* the head of the LRU list and its value is returned
CacheGet(key) ==
    /\ cache.count < MaxCacheOps
    /\ LET id == cache.keyToId[key]
           call == [NoCall EXCEPT !.op = "get", !.key = key, !.at = cache.now]
           done(c, result) == [c EXCEPT !.count = @ + 1, !.last = [call EXCEPT !.result = result]]
       IN IF id = NullRef THEN cache' = done(cache, "")
          ELSE IF cache.objects[id] = NoItem
          THEN cache' = done([cache EXCEPT !.keyToId[key] = NullRef], "")
          ELSE IF IsExpired(cache.objects[id], cache.now)
          THEN cache' = done(CacheDelete(cache, key), "")
          ELSE cache' = done([cache EXCEPT !.lru = MoveToLRUHead(@, key),
                                           !.written[key].use = cache.count + 1],
                             cache.objects[id].value)
    /\ UNCHANGED <<core, pool>>

\* await cache.delete(key)
CacheDeleteCall(key) ==
    /\ cache.count < MaxCacheOps
    /\ cache' = [CacheDelete(cache, key) EXCEPT
            !.count = @ + 1,
            !.last = [NoCall EXCEPT !.op = "delete", !.key = key, !.at = cache.now,
                                    !.result = IF cache.keyToId[key] # NullRef
                                               THEN "true" ELSE "false"],
            !.written[key] = Unwritten]
    /\ UNCHANGED <<core, pool>>

\* a timer of set fires, no earlier than its delay: this.expire(key)
Expire ==
    /\ \E t \in cache.timers :
          /\ t.due <= cache.now
          /\ cache' = [CacheDelete(cache, t.key) EXCEPT !.timers = cache.timers \ {t}]
    /\ UNCHANGED <<core, pool>>

\* Date.now() moves on
Tick ==
    /\ cache.now < MaxTime
    /\ cache' = [cache EXCEPT !.now = @ + 1]
    /\ UNCHANGED <<core, pool>>

NextCache ==
    \/ \E key \in CacheKeys, value \in CacheValues, ttl \in Ttls : CacheSet(key, value, ttl)
    \/ \E key \in CacheKeys : CacheGet(key)
    \/ \E key \in CacheKeys : CacheDeleteCall(key)
    \/ Expire
    \/ Tick

SpecCache == InitCache /\ [][NextCache]_vars

\* ============================================================== properties
TraceIdx == 1..Len(trace)
CallIdx  == 1..Len(calls)

IsEvent(k, type) == trace[k].kind = "event" /\ trace[k].type = type
IsDao(k, type)   == trace[k].kind = "dao" /\ trace[k].type = type

\* the events a call has emitted, as positions of the trace
EventsOf(c) == {k \in TraceIdx : trace[k].kind = "event" /\ trace[k].call = c}

IsTransition(c) == calls[c].op \in TransitionOps

\* the call has returned and the caller has issued nothing since
JustReturned(c) == c = Len(calls) /\ Finished(c)

\* the call after c is a get of the same id that has read the Store
GetFollows(c, id) ==
    c + 1 = Len(calls) /\ calls[c + 1].op = "get" /\ calls[c + 1].id = id

\* C1: whenever object:stateChanged is emitted, the emitting call has assigned
\* the new state to the object before, the Store's update of that object has
\* completed after the assignment and before the emission, and the listener
\* that reads the Store during the event finds the object with the new state.
C1_MutationPersistenceNotification ==
    \A k \in TraceIdx :
        IsEvent(k, "object:stateChanged") =>
            /\ \E i \in 1..(k - 1) : \E j \in (i + 1)..(k - 1) :
                  /\ trace[i].kind = "setState" /\ trace[i].call = trace[k].call
                  /\ trace[i].obj = trace[k].obj /\ trace[i].newState = trace[k].newState
                  /\ IsDao(j, "update") /\ trace[j].call = trace[k].call
                  /\ trace[j].obj = trace[k].obj
            /\ trace[k].seenObj = trace[k].obj
            /\ trace[k].seenState = trace[k].newState

\* C2: a start call that found its object in the created state leaves it
\* started, get(id) shows it started, and the call has emitted exactly one
\* object:stateChanged event, from created to started.
C2_StartFreshObject ==
    \A c \in CallIdx :
        (calls[c].op = "start" /\ Finished(c) /\ calls[c].obj # NullRef
            /\ calls[c].oldState = LifecycleCreatedState) =>
            /\ calls[c].pc = "done"
            /\ Cardinality(EventsOf(c)) = 1
            /\ \A k \in EventsOf(c) :
                  /\ trace[k].type = "object:stateChanged"
                  /\ trace[k].obj = calls[c].obj
                  /\ trace[k].oldState.name = "created"
                  /\ trace[k].newState.name = "started"
            /\ JustReturned(c) =>
                  /\ DaoGet(storage, calls[c].id) = calls[c].obj
                  /\ StoredState(storage, heap, calls[c].id).name = "started"
            /\ GetFollows(c, calls[c].id) =>
                  /\ calls[c + 1].result = calls[c].obj
                  /\ heap[calls[c + 1].result].state.name = "started"

C2_Witness ==
    \E c \in CallIdx :
        /\ calls[c].op = "start" /\ calls[c].pc = "done"
        /\ calls[c].oldState = LifecycleCreatedState
        /\ GetFollows(c, calls[c].id) /\ Finished(c + 1)

\* C3: a start/stop whose id the Store did not resolve fails with a
\* LifecycleError whose message contains the id, has emitted no event and has
\* written nothing to the Store; the failing step leaves the Store as it was.
C3_NotFoundState ==
    \A c \in CallIdx :
        (IsTransition(c) /\ calls[c].obj = NullRef /\ calls[c].pc # "resolved") =>
            /\ calls[c].pc = "failed"
            /\ calls[c].err.name = "LifecycleError"
            /\ MessageContains(calls[c].err, calls[c].id)
            /\ EventsOf(c) = {}
            /\ \A k \in TraceIdx : trace[k].call # c

C3_NotFoundStep ==
    \A c \in CallIdx :
        (IsTransition(c) /\ calls[c].pc = "resolved" /\ calls[c].obj = NullRef
            /\ calls'[c].pc # "resolved") =>
            /\ storage' = storage /\ heap' = heap /\ trace' = trace

C4_NoSourcePrecondition ==
    \A c \in CallIdx :
        (IsTransition(c) /\ calls[c].obj # NullRef) =>
            /\ calls[c].pc # "failed"
            /\ calls[c].err = NoError
            /\ JustReturned(c) =>
                  /\ DaoGet(storage, calls[c].id) = calls[c].obj
                  /\ StoredState(storage, heap, calls[c].id) = calls[c].target
            /\ GetFollows(c, calls[c].id) =>
                  /\ calls[c + 1].result = calls[c].obj
                  /\ heap[calls[c + 1].result].state = calls[c].target

SucceededFrom(ops, state) ==
    \E c \in CallIdx :
        calls[c].op \in ops /\ calls[c].pc = "done" /\ calls[c].oldState = state

C4_Witness ==
    /\ SucceededFrom({"stop"}, LifecycleCreatedState)
    /\ SucceededFrom({"start"}, LifecycleStoppedState)
    /\ SucceededFrom({"start", "stop", "pause"}, LifecycleStartedState)
    /\ SucceededFrom({"start", "stop"}, PausedState)

\* the Store holds an entry for id just before position k of the trace:
\* some create/update of id completed and no delete of id followed it
StoredBefore(k, id) ==
    \E j \in 1..(k - 1) :
        /\ trace[j].kind = "dao" /\ trace[j].id = id
        /\ trace[j].type \in {"create", "update"}
        /\ \A m \in (j + 1)..(k - 1) : ~(IsDao(m, "delete") /\ trace[m].id = id)

\* where the Store's delete of call c stands in the trace
DeletePos(c) == CHOOSE k \in TraceIdx : IsDao(k, "delete") /\ trace[k].call = c

DeletedExisting(c) ==
    calls[c].op = "delete" /\ StoredBefore(DeletePos(c), calls[c].id)

DeletedMissing(c) ==
    calls[c].op = "delete" /\ ~StoredBefore(DeletePos(c), calls[c].id)

\* C5: a delete of an id the Store held removes it, so the Store and a get
\* that follows resolve nothing, and the call, once returned, has emitted
\* exactly one object:deleted event, whose objectId is that id.
C5_DeleteExisting ==
    \A c \in CallIdx :
        DeletedExisting(c) =>
            /\ calls[c].pc # "failed"
            /\ c = Len(calls) => DaoGet(storage, calls[c].id) = NullRef
            /\ GetFollows(c, calls[c].id) => calls[c + 1].result = NullRef
            /\ calls[c].pc = "removed" => EventsOf(c) = {}
            /\ calls[c].pc = "done" =>
                  /\ Cardinality(EventsOf(c)) = 1
                  /\ \A k \in EventsOf(c) :
                        /\ trace[k].type = "object:deleted"
                        /\ trace[k].id = calls[c].id
                        /\ trace[k].seenObj = NullRef

C5_Witness ==
    \E c \in CallIdx :
        /\ DeletedExisting(c) /\ calls[c].pc = "done"
        /\ GetFollows(c, calls[c].id) /\ Finished(c + 1)

\* C6: a delete of an id the Store does not hold does not fail and, once
\* returned, has emitted exactly one object:deleted event with that id; the
\* step that calls the Store leaves the Store and every object as they were.
C6_DeleteMissingState ==
    \A c \in CallIdx :
        DeletedMissing(c) =>
            /\ calls[c].pc # "failed"
            /\ calls[c].err = NoError
            /\ calls[c].pc = "done" =>
                  /\ Cardinality(EventsOf(c)) = 1
                  /\ \A k \in EventsOf(c) :
                        /\ trace[k].type = "object:deleted"
                        /\ trace[k].id = calls[c].id

C6_DeleteMissingStep ==
    (/\ Len(calls') = Len(calls) + 1
     /\ calls'[Len(calls')].op = "delete"
     /\ DaoGet(storage, calls'[Len(calls')].id) = NullRef)
        => (storage' = storage /\ heap' = heap)

C6_DeleteMissing == []C6_DeleteMissingState /\ [][C6_DeleteMissingStep]_vars

C6_Witness ==
    \E c \in CallIdx : \E o \in 1..Len(heap) :
        /\ DeletedMissing(c) /\ calls[c].pc = "done"
        /\ heap[o].id # NoId /\ DaoGet(storage, heap[o].id) = o

\* C7: when four consecutive calls are create, start, stop and delete of the
\* created id and all have returned, they have emitted one event each, in the
\* order created, stateChanged(started), stateChanged(stopped), deleted, with
\* no other event between the first and the last of them.
FullFlow(c) ==
    /\ c + 3 <= Len(calls)
    /\ calls[c].op = "create"
    /\ calls[c + 1].op = "start" /\ calls[c + 1].id = calls[c].id
    /\ calls[c + 2].op = "stop" /\ calls[c + 2].id = calls[c].id
    /\ calls[c + 3].op = "delete" /\ calls[c + 3].id = calls[c].id
    /\ Finished(c + 3)

EventPos(c) == CHOOSE k \in EventsOf(c) : TRUE

C7_FullFlowEvents ==
    \A c \in CallIdx :
        FullFlow(c) =>
            /\ \A d \in c..(c + 3) : Cardinality(EventsOf(d)) = 1
            /\ EventPos(c) < EventPos(c + 1)
            /\ EventPos(c + 1) < EventPos(c + 2)
            /\ EventPos(c + 2) < EventPos(c + 3)
            /\ trace[EventPos(c)].type = "object:created"
            /\ trace[EventPos(c + 1)].type = "object:stateChanged"
            /\ trace[EventPos(c + 1)].newState.name = "started"
            /\ trace[EventPos(c + 2)].type = "object:stateChanged"
            /\ trace[EventPos(c + 2)].newState.name = "stopped"
            /\ trace[EventPos(c + 3)].type = "object:deleted"
            /\ trace[EventPos(c + 3)].id = calls[c].id
            /\ \A k \in EventPos(c)..EventPos(c + 3) :
                  trace[k].kind = "event" => trace[k].call \in c..(c + 3)

C7_Witness == \E c \in CallIdx : FullFlow(c)

\* C8: the object a create call returns has an id, and the Store resolves
\* that id to that very object when create returns, as does a get that follows.
C8_CreatedResolvable ==
    \A c \in CallIdx :
        (calls[c].op = "create" /\ calls[c].pc = "done") =>
            /\ calls[c].result # NullRef
            /\ heap[calls[c].result].id # NoId
            /\ heap[calls[c].result].id = calls[c].id
            /\ JustReturned(c) => DaoGet(storage, calls[c].id) = calls[c].result
            /\ GetFollows(c, calls[c].id) => calls[c + 1].result = calls[c].result

C8_Witness ==
    \E c \in CallIdx :
        /\ calls[c].op = "create" /\ calls[c].pc = "done"
        /\ GetFollows(c, calls[c].id) /\ Finished(c + 1)

\* C9: a create call has emitted nothing before it persisted the object and
\* exactly one object:created event when it returns; the event carries the
\* returned object, follows the Store's create of it, and the listener that
\* reads the Store during the event finds the object.
C9_CreatedEvent ==
    \A c \in CallIdx :
        calls[c].op = "create" =>
            /\ calls[c].pc \in {"factory", "persisted"} => EventsOf(c) = {}
            /\ calls[c].pc = "done" =>
                  /\ Cardinality(EventsOf(c)) = 1
                  /\ \A k \in EventsOf(c) :
                        /\ trace[k].type = "object:created"
                        /\ trace[k].obj = calls[c].result
                        /\ trace[k].id = calls[c].id
                        /\ trace[k].seenObj = calls[c].result
                        /\ \E j \in 1..(k - 1) :
                              /\ IsDao(j, "create") /\ trace[j].call = c
                              /\ trace[j].obj = calls[c].result

C9_Witness ==
    \E c \in CallIdx : \E d \in CallIdx :
        /\ c # d
        /\ calls[c].op = "create" /\ calls[c].pc = "done"
        /\ calls[d].op = "create" /\ calls[d].pc = "done"

\* C10: in every state, an id that a create returned and that was not passed
\* to delete resolves to the created object, an id that was passed to delete
\* resolves to nothing, and a get that has just read the Store returned so.
ReturnedByCreate(id, o) ==
    \E c \in CallIdx :
        calls[c].op = "create" /\ calls[c].pc = "done"
            /\ calls[c].id = id /\ calls[c].result = o

PassedToDelete(id) ==
    \E c \in CallIdx : calls[c].op = "delete" /\ calls[c].id = id

LastGet(id) ==
    Len(calls) >= 1 /\ calls[Len(calls)].op = "get" /\ calls[Len(calls)].id = id

C10_CreatedNotDeletedResolvable ==
    \A id \in Ids :
        /\ \A o \in 1..Len(heap) :
              (ReturnedByCreate(id, o) /\ ~PassedToDelete(id)) =>
                  /\ DaoGet(storage, id) = o
                  /\ LastGet(id) => calls[Len(calls)].result = o
        /\ PassedToDelete(id) =>
              /\ DaoGet(storage, id) = NullRef
              /\ LastGet(id) => calls[Len(calls)].result = NullRef

C10_Witness ==
    \E a \in Ids : \E b \in Ids : \E o \in 1..Len(heap) :
        /\ a >= 1 /\ PassedToDelete(a)
        /\ ReturnedByCreate(b, o) /\ ~PassedToDelete(b)
        /\ \E c \in CallIdx : IsTransition(c) /\ calls[c].pc = "done"

\* where call c assigned the new state, in the trace
AssignPos(c) == CHOOSE k \in TraceIdx : trace[k].kind = "setState" /\ trace[k].call = c

\* the Store updates of id that have been applied, as positions of the trace
UpdatesOf(id) == {k \in TraceIdx : IsDao(k, "update") /\ trace[k].id = id}

LastUpdate(id) == CHOOSE k \in UpdatesOf(id) : \A j \in UpdatesOf(id) : j <= k

\* C11: with calls interleaved at their await points, every transition call
\* that resolved its object completes without error and has then emitted
\* exactly one object:stateChanged event of its own (none before), and once
\* no call is in flight the state stored for an id is the target state of the
\* call whose Store update was applied last; no call in flight is blocked.
C11_EachCallEmitsOnce ==
    \A c \in CallIdx :
        (IsTransition(c) /\ calls[c].obj # NullRef) =>
            /\ calls[c].pc # "failed"
            /\ calls[c].pc # "done" => EventsOf(c) = {}
            /\ calls[c].pc = "done" =>
                  /\ Cardinality(EventsOf(c)) = 1
                  /\ \A k \in EventsOf(c) :
                        /\ trace[k].type = "object:stateChanged"
                        /\ trace[k].obj = calls[c].obj
                        /\ trace[k].newState = calls[c].target

C11_LastUpdateWins ==
    Idle =>
        \A id \in Ids :
            (DaoGet(storage, id) # NullRef /\ UpdatesOf(id) # {}) =>
                /\ StoredState(storage, heap, id) = calls[trace[LastUpdate(id)].call].target
                /\ StoredState(storage, heap, id).name \in {"started", "stopped", "paused"}

\* no call in flight is ever blocked: its continuation can run
C11_EveryCallCompletes ==
    \A c \in CallIdx : ~Finished(c) => ENABLED ResumeCall(c)

C11_ConcurrentTransitions ==
    /\ C11_EachCallEmitsOnce
    /\ C11_LastUpdateWins
    /\ C11_EveryCallCompletes

\* two transitions of one id were in flight together: the later call assigned
\* its state before the earlier call emitted its event
Overlapped(c, d) ==
    /\ c < d
    /\ IsTransition(c) /\ IsTransition(d)
    /\ calls[c].pc = "done" /\ calls[d].pc = "done"
    /\ calls[c].id = calls[d].id
    /\ AssignPos(d) < EventPos(c)

C11_Witness ==
    \E c \in CallIdx : \E d \in CallIdx :
        /\ Overlapped(c, d) /\ Idle
        /\ calls[c].op = "start" /\ calls[d].op = "stop"
        /\ EventPos(c) < EventPos(d)
        /\ StoredState(storage, heap, calls[c].id) = LifecycleStoppedState

\* C12: the ids that create calls have assigned are pairwise distinct, also
\* when the creates are in flight together, and every id a create returned
\* and no delete was passed resolves to the object that create returned.
IdAssigned(c) == calls[c].op = "create" /\ calls[c].pc \in {"persisted", "done"}

C12_DistinctIds ==
    /\ \A c \in CallIdx : \A d \in CallIdx :
          (c # d /\ IdAssigned(c) /\ IdAssigned(d)) =>
              /\ calls[c].id # calls[d].id
              /\ heap[calls[c].obj].id # heap[calls[d].obj].id
    /\ \A c \in CallIdx :
          (calls[c].op = "create" /\ calls[c].pc = "done"
              /\ ~PassedToDelete(calls[c].id)) =>
              /\ heap[calls[c].result].id = calls[c].id
              /\ DaoGet(storage, calls[c].id) = calls[c].result

\* two creates in flight together: the second was issued before the first
\* one persisted
C12_Witness ==
    \E c \in CallIdx : \E d \in CallIdx :
        /\ c < d
        /\ calls[c].op = "create" /\ calls[c].pc = "done"
        /\ calls[d].op = "create" /\ calls[d].pc = "done"
        /\ calls[d].obj = calls[c].obj + 1
        /\ \E k \in EventsOf(c) : \E j \in 1..(k - 1) :
              IsDao(j, "create") /\ trace[j].call = d
        /\ DaoGet(storage, calls[c].id) = calls[c].result
        /\ DaoGet(storage, calls[d].id) = calls[d].result

\* position k of the trace assigns `state` to the object of id
Assigns(k, id, state) ==
    trace[k].kind = "setState" /\ trace[k].id = id /\ trace[k].newState = state

\* C13: when a delete of a stored id has returned, the object was not in the
\* started state at the Store's delete: every assignment of started to it is
\* followed, before the removal, by an assignment of stopped, and an
\* object:stateChanged event with newState stopped stands between that
\* assignment and the delete's object:deleted event.
C13_DeleteStopsStarted ==
    \A c \in CallIdx :
        (DeletedExisting(c) /\ calls[c].pc = "done") =>
            \A j \in 1..(DeletePos(c) - 1) :
                Assigns(j, calls[c].id, LifecycleStartedState) =>
                    \E m \in (j + 1)..(DeletePos(c) - 1) :
                        /\ \E s \in {LifecycleStoppedState, PausedState} :
                              Assigns(m, calls[c].id, s)
                        /\ \A n \in m..(DeletePos(c) - 1) :
                              ~Assigns(n, calls[c].id, LifecycleStartedState)
                        /\ Assigns(m, calls[c].id, LifecycleStoppedState) =>
                              \E e \in (m + 1)..(EventPos(c) - 1) :
                                  /\ IsEvent(e, "object:stateChanged")
                                  /\ trace[e].id = calls[c].id
                                  /\ trace[e].newState = LifecycleStoppedState

\* how many times the emissions at the positions K invoked h
RECURSIVE Invocations(_, _)
Invocations(h, K) ==
    IF K = {} THEN 0
    ELSE LET k == CHOOSE x \in K : TRUE
         IN Count(trace[k].invoked, h) + Invocations(h, K \ {k})

\* three consecutive calls are create, start and delete of the created id
CreateStartDelete(c) ==
    /\ c + 2 <= Len(calls)
    /\ calls[c].op = "create"
    /\ calls[c + 1].op = "start" /\ calls[c + 1].id = calls[c].id
    /\ calls[c + 2].op = "delete" /\ calls[c + 2].id = calls[c].id
    /\ Finished(c + 2)

\* h is subscribed with '*' once, and with no event name, at the emission k
WildcardOnly(k, h) == Count(trace[k].onAll, h) = 1 /\ Count(trace[k].onType, h) = 0

WouldInvoke(all, type, h) == Count(MittEmit(all, type), h)

\* C15 as stated: a step off(type, h) leaves h out of every later emission of
\* that event and leaves the invocations of the other listeners as they
\* were; an emission invokes each listener registered on its event exactly
\* once.
C15_OffStepAsStated ==
    \A type \in SubscribedTypes \ {Wildcard} : \A h \in Handlers :
        Off(type, h) =>
            /\ WouldInvoke(listeners', type, h) = 0
            /\ \A g \in Handlers \ {h} :
                  WouldInvoke(listeners', type, g) = WouldInvoke(listeners, type, g)

C15_OncePerEmission ==
    \A k \in TraceIdx : \A h \in Handlers :
        (trace[k].kind = "event" /\ Count(trace[k].onType, h) >= 1) =>
            Count(trace[k].invoked, h) = 1

C15_OffStep ==
    \A type \in SubscribedTypes : \A h \in Handlers :
        Off(type, h) =>
            /\ Count(listeners'[type], h) = Count(listeners[type], h) - 1
            /\ \A g \in Handlers \ {h} :
                  Count(listeners'[type], g) = Count(listeners[type], g)
            /\ \A t \in (EventTypes \cup {Wildcard}) \ {type} :
                  listeners'[t] = listeners[t]
            /\ (type # Wildcard /\ Count(listeners[type], h) = 1
                    /\ Count(listeners[Wildcard], h) = 0) =>
                  WouldInvoke(listeners', type, h) = 0
            /\ \A g \in Handlers \ {h} :
                  WouldInvoke(listeners', type, g) = WouldInvoke(listeners, type, g)

C15_OncePerRegistration ==
    \A k \in TraceIdx :
        trace[k].kind = "event" =>
            /\ trace[k].invoked = trace[k].onType \o trace[k].onAll
            /\ \A h \in Handlers :
                  Count(trace[k].invoked, h)
                      = Count(trace[k].onType, h) + Count(trace[k].onAll, h)

C16_CreateSeedsProperties ==
    \A c \in CallIdx :
        (calls[c].op = "create" /\ calls[c].pc = "done" /\ calls[c].arg.given) =>
            /\ calls[c].arg.entries \subseteq heap[calls[c].result].attributes
            /\ DaoGet(storage, calls[c].id) # NullRef =>
                  calls[c].arg.entries
                      \subseteq heap[DaoGet(storage, calls[c].id)].attributes

\* where collaborators failed during call c
FaultsOf(c) == {k \in TraceIdx : trace[k].kind = "fault" /\ trace[k].call = c}

\* C17: a create during which the Factory, the Generator or the Store's
\* create failed has exactly one such failure; it then fails with that same
\* error and returns no object, emits no event, and calls no collaborator
\* again; and a create fails in no other way.
C17_CreateFailurePropagates ==
    \A c \in CallIdx :
        calls[c].op = "create" =>
            /\ calls[c].pc = "failed" => FaultsOf(c) # {}
            /\ \A k \in FaultsOf(c) :
                  /\ FaultsOf(c) = {k}
                  /\ trace[k].type \in {"factory.create", "idGenerator.generate", "dao.create"}
                  /\ calls[c].pc \in {"rejected", "failed"}
                  /\ calls[c].pc = "failed" => calls[c].err = Failure(trace[k].type)
                  /\ calls[c].result = NullRef
                  /\ EventsOf(c) = {}
                  /\ \A j \in (k + 1)..Len(trace) : trace[j].call # c
                  /\ \A id \in Ids : storage[id] = NullRef \/ storage[id] # calls[c].obj

\* three creates have failed, one on each collaborator
C17_Witness ==
    \A source \in {"factory.create", "idGenerator.generate", "dao.create"} :
        \E c \in CallIdx :
            /\ calls[c].op = "create" /\ calls[c].pc = "failed"
            /\ calls[c].err = Failure(source)

\* C18: when the Store's update issued by a transition has failed, the
\* transition does not resolve: once finished it has failed with that error.
C18_UpdateFailurePropagates ==
    \A k \in TraceIdx :
        (trace[k].kind = "fault" /\ trace[k].type = "dao.update") =>
            /\ calls[trace[k].call].pc # "done"
            /\ Finished(trace[k].call) =>
                  calls[trace[k].call].err = Failure("dao.update")

\* a LifecycleState with a name
WellFormed(state) ==
    /\ state.name # ""
    /\ state \in {LifecycleCreatedState, LifecycleStartedState,
                  LifecycleStoppedState, PausedState}
                    \cup {ErrorState(m) : m \in ErrorMessages}

\* no transition has assigned a state to object o
Untouched(o) == \A k \in TraceIdx : ~(trace[k].kind = "setState" /\ trace[k].obj = o)

\* C19: every object, and so every object the Store holds, has a state with
\* a name; an object no transition has assigned a state to is in the created
\* state, and the listener of object:created finds the stored object created.
C19_StateWellFormed ==
    /\ \A o \in 1..Len(heap) :
          /\ WellFormed(heap[o].state)
          /\ Untouched(o) => heap[o].state = LifecycleCreatedState
    /\ \A id \in Ids :
          DaoGet(storage, id) # NullRef => WellFormed(StoredState(storage, heap, id))
    /\ \A k \in TraceIdx :
          IsEvent(k, "object:created") => trace[k].seenState = LifecycleCreatedState

\* the Store holds an object that was never transitioned and one that was
C19_Witness ==
    \E o \in 1..Len(heap) : \E q \in 1..Len(heap) :
        /\ heap[o].id # NoId /\ DaoGet(storage, heap[o].id) = o
        /\ heap[q].id # NoId /\ DaoGet(storage, heap[q].id) = q
        /\ Untouched(o) /\ heap[o].state.name = "created"
        /\ ~Untouched(q) /\ heap[q].state.name = "stopped"

\* C20: a get never fails and emits nothing; the step that issues it reads
\* the Store and changes neither the Store, nor an object, nor the channel,
\* and resolves null exactly when the Store holds nothing under the id; the
\* step that returns it changes nothing but the call's position.
C20_GetNeverFails ==
    \A c \in CallIdx :
        calls[c].op = "get" =>
            /\ calls[c].pc # "failed"
            /\ calls[c].err = NoError
            /\ EventsOf(c) = {}
            /\ \A k \in TraceIdx : trace[k].call # c

C20_GetStep ==
    /\ (Len(calls') = Len(calls) + 1 /\ calls'[Len(calls')].op = "get") =>
          /\ storage' = storage /\ heap' = heap /\ trace' = trace
          /\ listeners' = listeners /\ pending' = pending
          /\ calls'[Len(calls')].result = DaoGet(storage, calls'[Len(calls')].id)
          /\ DaoGet(storage, calls'[Len(calls')].id) = NullRef =>
                calls'[Len(calls')].result = NullRef
    /\ \A c \in CallIdx :
          (calls[c].op = "get" /\ calls'[c] # calls[c]) =>
              /\ storage' = storage /\ heap' = heap /\ trace' = trace
              /\ listeners' = listeners /\ pending' = pending
              /\ calls'[c] = [calls[c] EXCEPT !.pc = "done"]

C20_GetUnknownIsAbsent == []C20_GetNeverFails /\ [][C20_GetStep]_vars

\* a get of an id the Store does not hold has returned null while the Store
\* holds an object
C20_Witness ==
    \E c \in CallIdx : \E o \in 1..Len(heap) :
        /\ c = Len(calls)
        /\ calls[c].op = "get" /\ calls[c].pc = "done"
        /\ calls[c].result = NullRef
        /\ DaoGet(storage, calls[c].id) = NullRef
        /\ heap[o].id # NoId /\ DaoGet(storage, heap[o].id) = o
        /\ trace # <<>>

\* a transition that found its object and has returned
Transitioned(c) == IsTransition(c) /\ calls[c].pc = "done" /\ calls[c].obj # NullRef

\* C21: a transition that has returned, whatever state value it was passed
\* (built-in, paused, or error with its message), has emitted one
\* object:stateChanged event whose newState is that value, the Store and a get
\* that follows resolve the object in exactly that state, and the events of
\* successive transitions stand in call order.
C21_CustomStates ==
    /\ \A c \in CallIdx :
          Transitioned(c) =>
              /\ Cardinality(EventsOf(c)) = 1
              /\ \A k \in EventsOf(c) :
                    /\ trace[k].type = "object:stateChanged"
                    /\ trace[k].newState = calls[c].target
                    /\ trace[k].seenState = calls[c].target
              /\ JustReturned(c) =>
                    StoredState(storage, heap, calls[c].id) = calls[c].target
              /\ GetFollows(c, calls[c].id) =>
                    /\ calls[c + 1].result = calls[c].obj
                    /\ heap[calls[c + 1].result].state = calls[c].target
    /\ \A c \in CallIdx : \A d \in CallIdx :
          (c < d /\ Transitioned(c) /\ Transitioned(d)) => EventPos(c) < EventPos(d)

\* start, pause and error of one object, in that order, have returned
C21_Witness ==
    \E c \in CallIdx :
        /\ c + 2 = Len(calls)
        /\ calls[c].op = "start" /\ Transitioned(c)
        /\ calls[c + 1].op = "pause" /\ Transitioned(c + 1)
        /\ calls[c + 2].op = "error" /\ Transitioned(c + 2)
        /\ calls[c + 1].id = calls[c].id /\ calls[c + 2].id = calls[c].id
        /\ StoredState(storage, heap, calls[c].id).errorMessage = "Something went wrong"
        /\ trace[EventPos(c + 1)].newState.name = "paused"
        /\ trace[EventPos(c + 2)].newState.errorMessage = "Something went wrong"

\* C22: the step of a transition that assigns the state changes, of the
\* target object, nothing but the state (its id, updatedAt and attributes
\* stay; createdAt is readonly), changes no other object, and leaves every
\* entry of the Store as it was.
C22_TransitionStep ==
    \A c \in CallIdx :
        (IsTransition(c) /\ calls[c].pc = "resolved" /\ calls'[c].pc = "updated") =>
            /\ heap'[calls[c].obj].id = heap[calls[c].obj].id
            /\ heap'[calls[c].obj].updatedAt = heap[calls[c].obj].updatedAt
            /\ heap'[calls[c].obj].attributes = heap[calls[c].obj].attributes
            /\ \A q \in 1..Len(heap) : q # calls[c].obj => heap'[q] = heap[q]
            /\ storage' = storage

C22_TransitionFrame == [][C22_TransitionStep]_vars

\* the writes of the Store about id, as positions of the trace
WritesOf(id) ==
    {k \in TraceIdx : trace[k].kind = "dao" /\ trace[k].id = id
                        /\ trace[k].type \in {"create", "update", "delete"}}

LastWrite(id) == CHOOSE k \in WritesOf(id) : \A j \in WritesOf(id) : j <= k

\* the gets of id that came after the write at position k
GetsAfter(k, id) ==
    {g \in TraceIdx : g > k /\ IsDao(g, "get") /\ trace[g].id = id}

\* C23: a create never fails; when the last write about an id is a create,
\* whether or not the id was stored before, the Store and every later get of
\* the id resolve the object passed to that create, and a create of any
\* object changes the entry of no other id.
C23_CreateOverwrites ==
    /\ \A c \in CallIdx : calls[c].op = "dao.create" => calls[c].pc = "done"
    /\ \A id \in Ids :
          (WritesOf(id) # {} /\ IsDao(LastWrite(id), "create")) =>
              /\ DaoGet(storage, id) = trace[LastWrite(id)].obj
              /\ \A g \in GetsAfter(LastWrite(id), id) :
                    trace[g].obj = trace[LastWrite(id)].obj
    /\ \A o \in 1..Len(heap) : \A i \in Ids \ {heap[o].id} :
          DaoGet(DaoCreate(storage, o, heap[o].id), i) = DaoGet(storage, i)

\* an id was created with one object and then with another; a get returned
\* the second, and the object under the other id is still there
C23_Witness ==
    \E j \in TraceIdx : \E k \in TraceIdx : \E g \in TraceIdx : \E i \in Ids :
        /\ j < k /\ k < g
        /\ IsDao(j, "create") /\ IsDao(k, "create") /\ IsDao(g, "get")
        /\ trace[j].id = trace[k].id /\ trace[g].id = trace[k].id
        /\ trace[j].obj # trace[k].obj
        /\ trace[g].obj = trace[k].obj
        /\ i # trace[k].id /\ DaoGet(storage, i) # NullRef

\* C24: when the last write about an id is an update, whether or not the id
\* was stored before, the Store and every later get resolve the very object
\* that was passed; updating again with the same object leaves the Store as
\* it is, and an update changes the entry of no other id.
C24_UpdateUpserts ==
    /\ \A c \in CallIdx : calls[c].op = "dao.update" => calls[c].pc = "done"
    /\ \A id \in Ids :
          (WritesOf(id) # {} /\ IsDao(LastWrite(id), "update")) =>
              /\ DaoGet(storage, id) = trace[LastWrite(id)].obj
              /\ DaoUpdate(storage, trace[LastWrite(id)].obj, id) = storage
              /\ \A g \in GetsAfter(LastWrite(id), id) :
                    trace[g].obj = trace[LastWrite(id)].obj
    /\ \A o \in 1..Len(heap) :
          /\ DaoUpdate(DaoUpdate(storage, o, heap[o].id), o, heap[o].id)
                = DaoUpdate(storage, o, heap[o].id)
          /\ \A i \in Ids \ {heap[o].id} :
                DaoGet(DaoUpdate(storage, o, heap[o].id), i) = DaoGet(storage, i)

\* an id that was not stored was updated twice with the same object, and a
\* get then returned that object
C24_Witness ==
    \E j \in TraceIdx : \E g \in TraceIdx :
        /\ j + 1 < g
        /\ IsDao(j, "update") /\ IsDao(j + 1, "update") /\ IsDao(g, "get")
        /\ trace[j].obj = trace[j + 1].obj
        /\ trace[g].id = trace[j].id /\ trace[g].obj = trace[j].obj
        /\ \A m \in 1..(j - 1) : trace[m].id # trace[j].id

\* the object as call c left it
After(c) == IF c = Len(calls) THEN heap[calls[c].obj] ELSE calls[c + 1].before

\* the entries of a map under a key, and under the other keys
Under(bag, key) == {kv \in bag : kv[1] = key}
Others(bag, key) == {kv \in bag : kv[1] # key}

\* C25: no key ever has two entries.  setAttribute(k, v) leaves exactly the
\* entry <<k, v>> under k, whatever was there; deleteAttribute(k) leaves none
\* and returns whether there was one; getAttribute returns the value under
\* the key, undefined when there is none, and hasAttribute whether there is
\* one; every operation on k leaves the entries of the other keys as they were.
C25_AttributeMap ==
    /\ \A o \in 1..Len(heap) : \A kv \in heap[o].attributes :
          Under(heap[o].attributes, kv[1]) = {kv}
    /\ \A c \in CallIdx :
          LET b == calls[c].before.attributes
              a == After(c).attributes
              k == calls[c].key
          IN /\ calls[c].op = "setAttribute" =>
                   Under(a, k) = {<<k, calls[c].value>>} /\ Others(a, k) = Others(b, k)
             /\ calls[c].op = "deleteAttribute" =>
                   /\ Under(a, k) = {} /\ Others(a, k) = Others(b, k)
                   /\ calls[c].found = (Under(b, k) # {})
             /\ calls[c].op = "getAttribute" =>
                   /\ a = b
                   /\ Under(b, k) = {} => calls[c].value = UndefinedValue
                   /\ Under(b, k) # {} => <<k, calls[c].value>> \in b
             /\ calls[c].op = "hasAttribute" =>
                   a = b /\ calls[c].found = (Under(b, k) # {})

\* a key overwritten and then deleted while the other key keeps its entry
C25_Witness ==
    \E c \in CallIdx :
        /\ c + 1 = Len(calls)
        /\ calls[c].op = "setAttribute" /\ calls[c].key = "key1"
        /\ calls[c].value = "value2"
        /\ calls[c].before.attributes = {<<"key1", "value1">>, <<"key2", "value1">>}
        /\ calls[c + 1].op = "deleteAttribute" /\ calls[c + 1].key = "key1"
        /\ calls[c + 1].before.attributes = {<<"key1", "value2">>, <<"key2", "value1">>}
        /\ calls[c + 1].found
        /\ heap[TheObject].attributes = {<<"key2", "value1">>}

\* C26: requireAttribute(k) throws an Error whose message names k exactly
\* when the map has no entry under k, and returns the value stored under k
\* when it has one; either way the object is left as it was.
C26_RequireAttribute ==
    \A c \in CallIdx :
        calls[c].op = "requireAttribute" =>
            LET b == calls[c].before.attributes
                k == calls[c].key
            IN /\ After(c) = calls[c].before
               /\ (calls[c].pc = "failed") = (Under(b, k) = {})
               /\ Under(b, k) = {} =>
                     /\ calls[c].err.name = "Error"
                     /\ \E i \in 1..Len(calls[c].err.message) :
                           calls[c].err.message[i] = Text(k)
               /\ Under(b, k) # {} =>
                     /\ calls[c].pc = "done" /\ calls[c].err = NoError
                     /\ <<k, calls[c].value>> \in b

\* requireAttribute of a stored key returned its value; of a missing key, threw
C26_Witness ==
    \E c, d \in CallIdx :
        /\ calls[c].op = "requireAttribute" /\ calls[c].key = "key1"
        /\ calls[c].before.attributes = {<<"key1", "value1">>}
        /\ calls[c].pc = "done" /\ calls[c].value = "value1"
        /\ calls[d].op = "requireAttribute" /\ calls[d].key = "key2"
        /\ calls[d].before.attributes = {<<"key1", "value1">>}
        /\ calls[d].pc = "failed"
        /\ calls[d].err = RequiredAttributeError("key2")

\* the successful start/stop calls on an object, and its stateChanged events
TransitionsOn(o) == {c \in CallIdx : Transitioned(c) /\ calls[c].obj = o}
StateChangesOf(o) ==
    {k \in TraceIdx : IsEvent(k, "object:stateChanged") /\ trace[k].obj = o}

\* C27: every start/stop call that has succeeded has performed exactly one
\* Store update of its object and then emitted exactly one object:stateChanged
\* event, from the state it found to its target state, also when the two are
\* the same state; so an object has as many stateChanged events as it has
\* successful transition calls.
C27_EveryTransitionEmits ==
    /\ \A c \in CallIdx :
          Transitioned(c) =>
              LET us == {k \in TraceIdx : IsDao(k, "update") /\ trace[k].call = c}
                  es == EventsOf(c)
              IN /\ Cardinality(us) = 1 /\ Cardinality(es) = 1
                 /\ \A u \in us : \A e \in es :
                       /\ u < e
                       /\ trace[u].obj = calls[c].obj
                       /\ IsEvent(e, "object:stateChanged")
                       /\ trace[e].obj = calls[c].obj
                       /\ trace[e].oldState = calls[c].oldState
                       /\ trace[e].newState = calls[c].target
    /\ \A o \in 1..Len(heap) :
          (\A c \in CallIdx : calls[c].obj = o /\ IsTransition(c) => Finished(c)) =>
              Cardinality(StateChangesOf(o)) = Cardinality(TransitionsOn(o))

\* an object started twice: the second call found it started and emitted too
C27_Witness ==
    \E c \in CallIdx :
        /\ c + 1 = Len(calls)
        /\ calls[c].op = "start" /\ calls[c + 1].op = "start"
        /\ calls[c].obj = calls[c + 1].obj
        /\ Transitioned(c) /\ Transitioned(c + 1)
        /\ calls[c + 1].oldState = LifecycleStartedState
        /\ \E e \in EventsOf(c + 1) :
              trace[e].oldState.name = "started" /\ trace[e].newState.name = "started"
        /\ Cardinality(StateChangesOf(calls[c].obj)) = 2

\* C28: a create/start/stop/delete call whose event has invoked a listener
\* that threw still completes successfully.
C28_ThrowingListenerTolerated ==
    \A k \in TraceIdx :
        /\ trace[k].kind = "event"
        /\ \E i \in 1..Len(trace[k].invoked) : trace[k].invoked[i] = Thrower
        => calls[trace[k].call].pc = "done" /\ calls[trace[k].call].err = NoError

\* the state the last transition assigned to object o, created if none did
AssignsTo(o) == {k \in TraceIdx : trace[k].kind = "setState" /\ trace[k].obj = o}
LastAssigned(o) ==
    IF AssignsTo(o) = {} THEN LifecycleCreatedState
    ELSE trace[CHOOSE k \in AssignsTo(o) : \A j \in AssignsTo(o) : j <= k].newState

\* the object the Store was given under id
CreatedAs(id) == {trace[k].obj : k \in {j \in TraceIdx : IsDao(j, "create") /\ trace[j].id = id}}

StoreOf(m) == IF m = active THEN storage ELSE parked.storage

\* the ids manager m has created and not deleted since
CreatedBy(m) ==
    {calls[c].id : c \in {d \in CallIdx : calls[d].op = "create" /\ calls[d].manager = m
                                          /\ calls[d].pc \in {"persisted", "done"}}}
DeletedBy(m) ==
    {calls[c].id : c \in {d \in CallIdx : calls[d].op = "delete" /\ calls[d].manager = m}}

\* C30: of two managers built with default collaborators, each one's Store
\* holds exactly the objects that manager itself has created and not deleted,
\* whatever the other manager was asked to do; a get on one manager of an id
\* the other manager created finds nothing; and an event a manager emits
\* invokes the listeners registered on that manager and no others.
C30_ManagersIsolated ==
    /\ \A m \in {1, 2} : \A id \in Ids :
          (DaoGet(StoreOf(m), id) # NullRef) = (id \in CreatedBy(m) \ DeletedBy(m))
    /\ \A c \in CallIdx :
          /\ calls[c].op = "get"
          /\ calls[c].id \in CreatedBy(3 - calls[c].manager)
          => calls[c].result = NullRef
    /\ \A k \in TraceIdx :
          trace[k].kind = "event" =>
              trace[k].invoked = <<Spy(calls[trace[k].call].manager)>>

\* manager 1 created an object; manager 2 was asked to delete that id, which
\* invoked spy2 only; manager 1 still resolves the object, manager 2 does not
C30_Witness ==
    /\ Len(calls) = 3
    /\ calls[1].op = "create" /\ calls[1].manager = 1 /\ calls[1].pc = "done"
    /\ calls[2].op = "delete" /\ calls[2].manager = 2 /\ calls[2].pc = "done"
    /\ calls[2].id = calls[1].id
    /\ \E k \in EventsOf(2) : trace[k].invoked = <<"spy2">>
    /\ \E k \in EventsOf(1) : trace[k].invoked = <<"spy1">>
    /\ calls[3].op = "get" /\ calls[3].manager = 2 /\ calls[3].pc = "done"
    /\ calls[3].id = calls[1].id /\ calls[3].result = NullRef
    /\ DaoGet(StoreOf(1), calls[1].id) = calls[1].obj

\* C31: once every call has completed, an id that was passed to delete
\* resolves to nothing, whatever transitions of that id were in flight
\* together with the delete.
C31_DeletionFinal ==
    Idle =>
        \A c \in CallIdx :
            calls[c].op = "delete" => DaoGet(storage, calls[c].id) = NullRef

\* the object:deleted event of id, and the events of the object created as id
DeletedEvents(id) == {k \in TraceIdx : IsEvent(k, "object:deleted") /\ trace[k].id = id}

\* C32: no object:stateChanged event of an object stands after the
\* object:deleted event of its id.
C32_DeletedIsLast ==
    \A k \in TraceIdx : \A m \in TraceIdx :
        (IsEvent(k, "object:deleted") /\ IsEvent(m, "object:stateChanged")
            /\ trace[m].id = trace[k].id) => m < k

\* the state of object o when position k of the trace was recorded: the one
\* assigned last before k
StateAt(o, k) ==
    LET before == {j \in AssignsTo(o) : j < k}
    IN IF before = {} THEN LifecycleCreatedState
       ELSE trace[CHOOSE j \in before : \A i \in before : i <= j].newState

\* C33: when an object:stateChanged event is delivered, the object it carries
\* is in the event's newState, and so is the object stored under its id.
C33_EventStateCurrent ==
    \A k \in TraceIdx :
        IsEvent(k, "object:stateChanged") =>
            /\ StateAt(trace[k].obj, k) = trace[k].newState
            /\ trace[k].seenObj # NullRef => trace[k].seenState = trace[k].newState

\* the object:stateChanged event of object o emitted just before position k
PreviousChange(o, k) ==
    LET earlier == {j \in StateChangesOf(o) : j < k}
    IN CHOOSE j \in earlier : \A i \in earlier : i <= j

\* C34: in the order of emission, the first object:stateChanged event of an
\* object has oldState created, and every later one has as oldState the
\* newState of the event emitted just before it for that object.
C34_EventsChain ==
    \A o \in 1..Len(heap) : \A k \in StateChangesOf(o) :
        IF \E j \in StateChangesOf(o) : j < k
        THEN trace[k].oldState = trace[PreviousChange(o, k)].newState
        ELSE trace[k].oldState = LifecycleCreatedState

\* start and stop of one id were in flight together, stop assigned before
\* start emitted; a third transition followed: three events, chained
C34_Witness ==
    \E c, d, e \in CallIdx :
        /\ Overlapped(c, d) /\ Idle
        /\ calls[c].op = "start" /\ calls[d].op = "stop"
        /\ calls[e].op = "start" /\ calls[e].pc = "done" /\ d < e
        /\ calls[e].obj = calls[c].obj
        /\ EventPos(c) < EventPos(d) /\ EventPos(d) < EventPos(e)
        /\ trace[EventPos(c)].oldState = LifecycleCreatedState
        /\ trace[EventPos(d)].oldState = LifecycleStartedState
        /\ trace[EventPos(e)].oldState = LifecycleStoppedState

\* call c passed changeState an object
ByReference(c) == calls[c].op = "changeState"

\* C35: a changeState that was passed an object never fails: it has assigned
\* the state and written the object to the Store by the time it first awaits,
\* whether or not the Store held the object's id, and when it has returned
\* the Store maps the object's id to that object, in the state passed.
C35_ChangeStateByReference ==
    \A c \in CallIdx :
        ByReference(c) =>
            /\ calls[c].pc \in {"updated", "done"} /\ calls[c].err = NoError
            /\ \E k \in TraceIdx :
                  /\ trace[k].kind = "setState" /\ trace[k].call = c
                  /\ trace[k].obj = calls[c].obj /\ trace[k].newState = calls[c].target
                  /\ k < Len(trace) /\ IsDao(k + 1, "update") /\ trace[k + 1].call = c
                  /\ trace[k + 1].obj = calls[c].obj
            /\ JustReturned(c) =>
                  /\ DaoGet(storage, calls[c].id) = calls[c].obj
                  /\ heap[calls[c].obj].id = calls[c].id
                  /\ StoredState(storage, heap, calls[c].id) = calls[c].target
                  /\ Cardinality(EventsOf(c)) = 1

\* changeState was passed an object whose id had been deleted, and later an
\* object that was never persisted: both are in the Store afterwards
C35_Witness ==
    \E b, c, d \in CallIdx :
        /\ calls[b].op = "delete" /\ calls[b].pc = "done" /\ c = b + 1
        /\ ByReference(c) /\ ByReference(d) /\ c < d /\ JustReturned(d)
        /\ calls[c].pc = "done"
        /\ calls[b].id = calls[c].id
        /\ StoredBefore(DeletePos(b), calls[c].id)
        /\ calls[d].id # calls[c].id
        /\ ~StoredBefore(AssignPos(d), calls[d].id)
        /\ DaoGet(storage, calls[c].id) = calls[c].obj
        /\ DaoGet(storage, calls[d].id) = calls[d].obj

\* the ids in a sequence
Range(ids) == {ids[k] : k \in 1..Len(ids)}

\* C36: the ConnectionPool never holds a connection as available and busy
\* at once: no connection id is both in availableConnections and in
\* busyConnections, so that a connection handed out by acquireConnection
\* cannot be popped by another acquireConnection before it is released.
C36_AvailableOrBusy ==
    pool.busy \cap Range(pool.available) = {}

\* C37: stats.totalConnections never exceeds maxConnections, whatever
\* acquireConnection, releaseConnection and reapIdleConnections calls are
\* issued, together or one after the other; and an acquireConnection that
\* found nothing available in a full pool has returned null without creating.
C37_TotalWithinMax ==
    /\ pool.total <= PoolMax
    /\ \A i \in PoolOps :
          (pool.ops[i].op = "acquire" /\ pool.ops[i].pc = "done"
              /\ pool.ops[i].conn = NoConn) => pool.ops[i].result = NoConn

\* C38: the CacheManager respects its capacity: currentSize, the number of
\* keys in keyToIdMap and the length of the LRU list never exceed maxSize; a
\* set of a new key at full capacity evicts exactly one entry and a set of
\* an existing key evicts none.
C38_CapacityRespected ==
    /\ cache.size <= CacheMax
    /\ Cardinality(CachedKeys(cache)) <= CacheMax
    /\ Len(cache.lru) <= CacheMax
    /\ cache.last.op = "set" =>
          /\ (cache.last.fresh /\ cache.last.full) => Cardinality(cache.last.evicted) = 1
          /\ ~cache.last.fresh => cache.last.evicted = {}

\* a new key has been set into a full cache
C38_Witness ==
    /\ cache.last.op = "set" /\ cache.last.fresh /\ cache.last.full
    /\ cache.size = CacheMax
    /\ Cardinality(cache.last.evicted) = 1

\* C39: when set inserts a new key at full capacity, the evicted entry is
\* the one whose last use (its set or its latest successful get) is the
\* oldest, and every other entry is still cached.
C39_EvictsLeastRecentlyUsed ==
    [][(/\ cache'.count = cache.count + 1
        /\ cache'.last.op = "set" /\ cache'.last.fresh /\ cache'.last.full)
       => \E k \in CachedKeys(cache) :
             /\ cache'.last.evicted = {k}
             /\ \A j \in CachedKeys(cache) \ {k} :
                   /\ cache.written[k].use < cache.written[j].use
                   /\ j \in CachedKeys(cache')
                   /\ cache'.objects[cache'.keyToId[j]] = cache.objects[cache.keyToId[j]]]_vars

\* set k1, set k2, get k1, set k3 with room for two: k2 is evicted although
\* k1 was set before it
C39_Witness ==
    /\ cache.count = 4
    /\ cache.last.op = "set" /\ cache.last.key = "k3"
    /\ cache.last.evicted = {"k2"}
    /\ cache.keyToId["k1"] = 1
    /\ cache.written["k1"].use = 3
    /\ cache.keyToId["k3"] = 4

\* C40: get(key) returns the value of the most recent set(key, value, ttl)
\* at every time before ttl has elapsed since that set, provided the key was
\* neither deleted nor evicted since, and null once ttl has elapsed; an
\* earlier set of the key with another TTL does not shorten that lifetime.
C40_TtlHonoured ==
    (cache.last.op = "get" /\ cache.written[cache.last.key] # Unwritten) =>
        LET w == cache.written[cache.last.key]
        IN /\ cache.last.at - w.at < w.ttl => cache.last.result = w.value
           /\ cache.last.at - w.at > w.ttl => cache.last.result = ""

====
